---- MODULE Spec2Model ----
(***************************************************************************)
(* Knowledge-graph memory engine (MemoryManager) on top of the relational  *)
(* store adapter (SQLiteManager), database-mcp-server.                     *)
(*                                                                         *)
(* The store is the `memory` database: the two tables `entities` and       *)
(* `relations` and the AUTOINCREMENT counter of `relations`.  A table is   *)
(* the sequence of its rows in rowid order.  Every adapter call returns    *)
(* the uniform result {success, data?, error?}; a call may report          *)
(* success = false (its try/catch), which the model draws as an input.     *)
(***************************************************************************)
EXTENDS Integers, Sequences, FiniteSets, TLC

VARIABLES
  db,      \* the store: [entities, relations, sqlite_sequence]
  clock,   \* the wall clock in milliseconds (what new Date() reads)
  last,    \* the last completed engine call: op, entity names, returned or
           \* thrown, rows written (and, for some, what it returned)
  procs    \* concurrent callers: position and locals of each (SpecConc)

vars == <<db, clock, last, procs>>

----------------------------------------------------------------------------
(* Bounds of the model *)

MaxClock == 1      \* the clock runs over 0..MaxClock
MaxObs == 3        \* longest stored observation sequence
MaxRel == 2        \* most relation rows ever inserted (AUTOINCREMENT ids)
MaxBatch == 3   \* items in one batch call

Names == {"a", "b"}
EntityTypes == {"T1", "T2"}
RelationTypes == {"r1"}
ObsStrings == {<<"x">>, <<"y">>}   \* a JS string is the sequence of its characters

----------------------------------------------------------------------------
(* Sequence helpers *)

RECURSIVE SelectRows(_, _)
SelectRows(rows, cond) ==
  IF rows = <<>> THEN <<>>
  ELSE LET r == Head(rows)
           rest == SelectRows(Tail(rows), cond)
       IN IF \A k \in DOMAIN cond : r[k] = cond[k] THEN <<r>> \o rest ELSE rest

RECURSIVE RejectRows(_, _)
RejectRows(rows, cond) ==
  IF rows = <<>> THEN <<>>
  ELSE LET r == Head(rows)
           rest == RejectRows(Tail(rows), cond)
       IN IF \A k \in DOMAIN cond : r[k] = cond[k] THEN rest ELSE <<r>> \o rest

Range(s) == {s[i] : i \in DOMAIN s}

----------------------------------------------------------------------------
(* JSON.stringify / JSON.parse on an array of strings *)

EscapeChar(c) == IF c \in {"\"", "\\"} THEN <<"\\", c>> ELSE <<c>>

RECURSIVE QuoteChars(_)
QuoteChars(s) == IF s = <<>> THEN <<>> ELSE EscapeChar(Head(s)) \o QuoteChars(Tail(s))

RECURSIVE JoinElems(_)
JoinElems(arr) ==
  IF arr = <<>> THEN <<>>
  ELSE <<"\"">> \o QuoteChars(Head(arr)) \o <<"\"">>
       \o (IF Tail(arr) = <<>> THEN <<>> ELSE <<",">> \o JoinElems(Tail(arr)))

JSONStringify(arr) == <<"[">> \o JoinElems(arr) \o <<"]">>

RECURSIVE ParseString(_, _, _)
ParseString(t, i, acc) ==
  IF t[i] = "\"" THEN [val |-> acc, next |-> i + 1]
  ELSE IF t[i] = "\\" THEN ParseString(t, i + 2, Append(acc, t[i + 1]))
  ELSE ParseString(t, i + 1, Append(acc, t[i]))

RECURSIVE ParseElems(_, _, _)
ParseElems(t, i, acc) ==
  IF t[i] = "]" THEN acc
  ELSE IF t[i] = "," THEN ParseElems(t, i + 1, acc)
  ELSE LET s == ParseString(t, i + 1, <<>>)
       IN ParseElems(t, s.next, Append(acc, s.val))

JSONParse(t) == ParseElems(t, 2, <<>>)

----------------------------------------------------------------------------
(* SQLiteManager: the store adapter.  `fail` is the injected outcome of the *)
(* underlying sqlite call (busy, I/O error, read-only file): the adapter's  *)
(* catch block then returns success = false and the store is untouched.     *)

NoConditions == <<>>    \* the JS object {} : no keys

\* `if (conditions)` holds for every object, also {}: with no keys the SQL
\* text ends in "WHERE " and sqlite rejects it (incomplete input).
WhereClauseOk(cond) == DOMAIN cond # {}

QueryData(d, table, cond, fail) ==
  IF fail \/ ~WhereClauseOk(cond)
  THEN [success |-> FALSE, rows |-> <<>>]
  ELSE [success |-> TRUE, rows |-> SelectRows(d[table], cond)]

\* One INSERT statement.  entities.name is the PRIMARY KEY; relations.id is
\* INTEGER PRIMARY KEY AUTOINCREMENT, assigned by the store.
\* Variant: a table without the key constraint.
NoPrimaryKey(d, table, rec) == TRUE

PrimaryKeyFree(d, table, rec) ==
  table = "entities" => \A i \in DOMAIN d.entities : d.entities[i].name # rec.name

InsertRow(d, table, rec) ==
  IF table = "entities"
  THEN [d EXCEPT !.entities = Append(@, rec)]
  ELSE [d EXCEPT !.relations = Append(@, [id |-> d.sqlite_sequence + 1,
                                           from_entity |-> rec.from_entity,
                                           to_entity |-> rec.to_entity,
                                           relation_type |-> rec.relation_type,
                                           created_at |-> rec.created_at]),
                 !.sqlite_sequence = @ + 1]

\* insertData: one statement per record, in order, no transaction around the
\* loop; statement number failAt (0: none) fails by injection.
RECURSIVE InsertLoop(_, _, _, _, _)
InsertLoop(d, table, records, k, failAt) ==
  IF k > Len(records)
  THEN [success |-> TRUE, db |-> d, insertedCount |-> Len(records)]
  ELSE IF k = failAt \/ ~PrimaryKeyFree(d, table, records[k])
  THEN [success |-> FALSE, db |-> d, insertedCount |-> k - 1]
  ELSE InsertLoop(InsertRow(d, table, records[k]), table, records, k + 1, failAt)

InsertData(d, table, records, failAt) ==
  IF Len(records) = 0
  THEN [success |-> FALSE, db |-> d, insertedCount |-> 0]
  ELSE InsertLoop(d, table, records, 1, failAt)

ApplyUpdates(row, updates) ==
  [k \in DOMAIN row |-> IF k \in DOMAIN updates THEN updates[k] ELSE row[k]]

\* Variant: an UPDATE without its WHERE clause.
MatchesEveryRow(row, cond) == TRUE

RowMatches(row, cond) == \A k \in DOMAIN cond : row[k] = cond[k]

UpdateRows(rows, cond, updates) ==
  [i \in DOMAIN rows |->
     IF RowMatches(rows[i], cond) THEN ApplyUpdates(rows[i], updates) ELSE rows[i]]

UpdateData(d, table, cond, updates, fail) ==
  IF fail \/ ~WhereClauseOk(cond)
  THEN [success |-> FALSE, db |-> d, changes |-> 0]
  ELSE [success |-> TRUE,
        db |-> [d EXCEPT ![table] = UpdateRows(@, cond, updates)],
        changes |-> Len(SelectRows(d[table], cond))]

DeleteData(d, table, cond, fail) ==
  IF fail \/ ~WhereClauseOk(cond)
  THEN [success |-> FALSE, db |-> d, changes |-> 0]
  ELSE [success |-> TRUE,
        db |-> [d EXCEPT ![table] = RejectRows(@, cond)],
        changes |-> Len(SelectRows(d[table], cond))]

----------------------------------------------------------------------------
(* MemoryManager: the engine's single-item operations.  Each takes the      *)
(* store d, its arguments, the clock reading `now` and the set f of the     *)
(* numbers of its store calls that report failure, and gives the store it   *)
(* leaves, the store calls it issued and what the caller gets: a value     *)
(* (ok) or a thrown Error (its message in err).                            *)

Returned(v) == [ok |-> TRUE, err |-> "", val |-> v]
Thrown(msg) == [ok |-> FALSE, err |-> msg, val |-> <<>>]
Call(name, table, res, n) ==
  [call |-> name, table |-> table, success |-> res.success, changes |-> n]

RECURSIVE RowsWritten(_)
RowsWritten(calls) ==
  IF calls = <<>> THEN 0 ELSE Head(calls).changes + RowsWritten(Tail(calls))

AlreadyExists == "already exists"
DoesNotExist == "does not exist"
FailedToCreateEntity == "Failed to create entity"
FailedToCreateRelation == "Failed to create relation"

EntityOfRow(row) ==
  [name |-> row.name, entityType |-> row.entity_type,
   observations |-> JSONParse(row.observations),
   createdAt |-> row.created_at, updatedAt |-> row.updated_at]

RelationOfRow(row) ==
  [from |-> row.from_entity, to |-> row.to_entity,
   relationType |-> row.relation_type, createdAt |-> row.created_at]

\* Variant: an existing entity is overwritten instead of rejected.
CreateEntityOverwrite(d, name, entityType, observations, now, f) ==
  LET existing == QueryData(d, "entities", [name |-> name], 1 \in f)
      removed == DeleteData(d, "entities", [name |-> name], FALSE)
      insertResult ==
        InsertData(removed.db, "entities",
                   <<[name |-> name, entity_type |-> entityType,
                      observations |-> JSONStringify(observations),
                      created_at |-> now, updated_at |-> now]>>,
                   IF 2 \in f THEN 1 ELSE 0)
      q == Call("queryData", "entities", existing, 0)
      w == Call("insertData", "entities", insertResult, insertResult.insertedCount)
  IN IF ~insertResult.success
     THEN [db |-> d, calls |-> <<q, w>>, out |-> Thrown(FailedToCreateEntity)]
     ELSE [db |-> insertResult.db, calls |-> <<q, w>>,
           out |-> Returned([name |-> name, entityType |-> entityType,
                             observations |-> observations,
                             createdAt |-> now, updatedAt |-> now])]

CreateEntity(d, name, entityType, observations, now, f) ==
  LET existing == QueryData(d, "entities", [name |-> name], 1 \in f)
      insertResult ==
        InsertData(d, "entities",
                   <<[name |-> name, entity_type |-> entityType,
                      observations |-> JSONStringify(observations),
                      created_at |-> now, updated_at |-> now]>>,
                   IF 2 \in f THEN 1 ELSE 0)
      q == Call("queryData", "entities", existing, 0)
      w == Call("insertData", "entities", insertResult, insertResult.insertedCount)
  IN IF existing.success /\ Len(existing.rows) > 0
     THEN [db |-> d, calls |-> <<q>>, out |-> Thrown(AlreadyExists)]
     ELSE IF ~insertResult.success
     THEN [db |-> insertResult.db, calls |-> <<q, w>>, out |-> Thrown(FailedToCreateEntity)]
     ELSE [db |-> insertResult.db, calls |-> <<q, w>>,
           out |-> Returned([name |-> name, entityType |-> entityType,
                             observations |-> observations,
                             createdAt |-> now, updatedAt |-> now])]

CreateRelation(d, from, to, relationType, now, f) ==
  LET fromEntity == QueryData(d, "entities", [name |-> from], 1 \in f)
      toEntity == QueryData(d, "entities", [name |-> to], 2 \in f)
      insertResult ==
        InsertData(d, "relations",
                   <<[from_entity |-> from, to_entity |-> to,
                      relation_type |-> relationType, created_at |-> now]>>,
                   IF 3 \in f THEN 1 ELSE 0)
      q1 == Call("queryData", "entities", fromEntity, 0)
      q2 == Call("queryData", "entities", toEntity, 0)
      w == Call("insertData", "relations", insertResult, insertResult.insertedCount)
  IN IF ~fromEntity.success \/ Len(fromEntity.rows) = 0
     THEN [db |-> d, calls |-> <<q1, q2>>, out |-> Thrown(DoesNotExist)]
     ELSE IF ~toEntity.success \/ Len(toEntity.rows) = 0
     THEN [db |-> d, calls |-> <<q1, q2>>, out |-> Thrown(DoesNotExist)]
     ELSE IF ~insertResult.success
     THEN [db |-> insertResult.db, calls |-> <<q1, q2, w>>,
           out |-> Thrown(FailedToCreateRelation)]
     ELSE [db |-> insertResult.db, calls |-> <<q1, q2, w>>,
           out |-> Returned([from |-> from, to |-> to,
                             relationType |-> relationType, createdAt |-> now])]

\* Variant: a missing entity is created with the given contents.
AddObservationUpsert(d, entityName, contents, now, f) ==
  LET result == QueryData(d, "entities", [name |-> entityName], 1 \in f)
      q == Call("queryData", "entities", result, 0)
      ins == InsertData(d, "entities",
                        <<[name |-> entityName, entity_type |-> "T1",
                           observations |-> JSONStringify(contents),
                           created_at |-> now, updated_at |-> now]>>, 0)
      upd == UpdateData(d, "entities", [name |-> entityName],
                        [observations |->
                           JSONStringify(JSONParse(result.rows[1].observations) \o contents),
                         updated_at |-> now],
                        2 \in f)
  IN IF ~result.success \/ Len(result.rows) = 0
     THEN [db |-> ins.db,
           calls |-> <<q, Call("insertData", "entities", ins, ins.insertedCount)>>,
           out |-> Returned([name |-> entityName, entityType |-> "T1",
                             observations |-> contents,
                             createdAt |-> now, updatedAt |-> now])]
     ELSE [db |-> upd.db,
           calls |-> <<q, Call("updateData", "entities", upd, upd.changes)>>,
           out |-> Returned([name |-> entityName,
                             entityType |-> result.rows[1].entity_type,
                             observations |->
                               JSONParse(result.rows[1].observations) \o contents,
                             createdAt |-> result.rows[1].created_at,
                             updatedAt |-> now])]

\* Variant: the update stores the creation time as updated_at.
AddObservationKeepStamp(d, entityName, contents, now, f) ==
  LET result == QueryData(d, "entities", [name |-> entityName], 1 \in f)
      q == Call("queryData", "entities", result, 0)
      upd == UpdateData(d, "entities", [name |-> entityName],
                        [observations |->
                           JSONStringify(JSONParse(result.rows[1].observations) \o contents),
                         updated_at |-> result.rows[1].created_at],
                        2 \in f)
  IN IF ~result.success \/ Len(result.rows) = 0
     THEN [db |-> d, calls |-> <<q>>, out |-> Thrown(DoesNotExist)]
     ELSE [db |-> upd.db,
           calls |-> <<q, Call("updateData", "entities", upd, upd.changes)>>,
           out |-> Returned([name |-> entityName,
                             entityType |-> result.rows[1].entity_type,
                             observations |->
                               JSONParse(result.rows[1].observations) \o contents,
                             createdAt |-> result.rows[1].created_at,
                             updatedAt |-> now])]

AddObservation(d, entityName, contents, now, f) ==
  LET result == QueryData(d, "entities", [name |-> entityName], 1 \in f)
      q == Call("queryData", "entities", result, 0)
  IN IF ~result.success \/ Len(result.rows) = 0
     THEN [db |-> d, calls |-> <<q>>, out |-> Thrown(DoesNotExist)]
     ELSE LET entity == result.rows[1]
              currentObservations == JSONParse(entity.observations)
              updatedObservations == currentObservations \o contents
              upd == UpdateData(d, "entities", [name |-> entityName],
                                [observations |-> JSONStringify(updatedObservations),
                                 updated_at |-> now],
                                2 \in f)
          IN [db |-> upd.db,
              calls |-> <<q, Call("updateData", "entities", upd, upd.changes)>>,
              out |-> Returned([name |-> entity.name,
                                entityType |-> entity.entity_type,
                                observations |-> updatedObservations,
                                createdAt |-> entity.created_at,
                                updatedAt |-> now])]

\* currentObservations.filter(obs => !observations.includes(obs))
RECURSIVE FilterNotIncluded(_, _)
FilterNotIncluded(current, observations) ==
  IF current = <<>> THEN <<>>
  ELSE IF Head(current) \in Range(observations)
  THEN FilterNotIncluded(Tail(current), observations)
  ELSE <<Head(current)>> \o FilterNotIncluded(Tail(current), observations)

DeleteObservation(d, entityName, observations, now, f) ==
  LET result == QueryData(d, "entities", [name |-> entityName], 1 \in f)
      q == Call("queryData", "entities", result, 0)
  IN IF ~result.success \/ Len(result.rows) = 0
     THEN [db |-> d, calls |-> <<q>>, out |-> Thrown(DoesNotExist)]
     ELSE LET entity == result.rows[1]
              currentObservations == JSONParse(entity.observations)
              updatedObservations == FilterNotIncluded(currentObservations, observations)
              upd == UpdateData(d, "entities", [name |-> entityName],
                                [observations |-> JSONStringify(updatedObservations),
                                 updated_at |-> now],
                                2 \in f)
          IN [db |-> upd.db,
              calls |-> <<q, Call("updateData", "entities", upd, upd.changes)>>,
              out |-> Returned([name |-> entity.name,
                                entityType |-> entity.entity_type,
                                observations |-> updatedObservations,
                                createdAt |-> entity.created_at,
                                updatedAt |-> now])]

\* Variant: the relations that point to the entity are left in place.
DeleteEntityFromOnly(d, entityName, f) ==
  LET d1 == DeleteData(d, "relations", [from_entity |-> entityName], 1 \in f)
      d3 == DeleteData(d1.db, "entities", [name |-> entityName], 3 \in f)
  IN [db |-> d3.db,
      calls |-> <<Call("deleteData", "relations", d1, d1.changes),
                  Call("deleteData", "entities", d3, d3.changes)>>,
      out |-> Returned(<<>>)]

\* The three deletes in order; none of the three results is looked at.
DeleteEntity(d, entityName, f) ==
  LET d1 == DeleteData(d, "relations", [from_entity |-> entityName], 1 \in f)
      d2 == DeleteData(d1.db, "relations", [to_entity |-> entityName], 2 \in f)
      d3 == DeleteData(d2.db, "entities", [name |-> entityName], 3 \in f)
  IN [db |-> d3.db,
      calls |-> <<Call("deleteData", "relations", d1, d1.changes),
                  Call("deleteData", "relations", d2, d2.changes),
                  Call("deleteData", "entities", d3, d3.changes)>>,
      out |-> Returned(<<>>)]

DeleteRelation(d, from, to, relationType, f) ==
  LET d1 == DeleteData(d, "relations",
                       [from_entity |-> from, to_entity |-> to,
                        relation_type |-> relationType], 1 \in f)
  IN [db |-> d1.db, calls |-> <<Call("deleteData", "relations", d1, d1.changes)>>,
      out |-> Returned(<<>>)]

MapEntities(rows) == [i \in DOMAIN rows |-> EntityOfRow(rows[i])]
MapRelations(rows) == [i \in DOMAIN rows |-> RelationOfRow(rows[i])]

\* Both reads pass the conditions object {}.
ReadGraph(d, f) ==
  LET entitiesResult == QueryData(d, "entities", NoConditions, 1 \in f)
      relationsResult == QueryData(d, "relations", NoConditions, 2 \in f)
  IN [db |-> d,
      calls |-> <<Call("queryData", "entities", entitiesResult, 0),
                  Call("queryData", "relations", relationsResult, 0)>>,
      out |-> Returned([entities |-> IF entitiesResult.success
                                     THEN MapEntities(entitiesResult.rows) ELSE <<>>,
                        relations |-> IF relationsResult.success
                                      THEN MapRelations(relationsResult.rows) ELSE <<>>])]


(* The batch forms: a loop over the items with a try/catch around each     *)
(* single-item call.  fs gives each item's failing store calls; attempts   *)
(* tells, per loop iteration, whether the item's call returned (pushed to  *)
(* results) or threw (caught and logged).                                  *)
\* results.push(...) when the item's call returned; the catch block only
\* logs when it threw.
NoResults == [calls |-> <<>>, attempts |-> <<>>, results |-> <<>>]
Pushing(acc, r) ==
  [calls |-> acc.calls \o r.calls,
   attempts |-> Append(acc.attempts, r.out.ok),
   results |-> IF r.out.ok THEN Append(acc.results, r.out.val) ELSE acc.results]
Finished(d, acc) ==
  [db |-> d, calls |-> acc.calls, attempts |-> acc.attempts,
   out |-> Returned(acc.results)]

\* Variant: the loop ends at the first item that throws.
RECURSIVE CreateEntitiesStopAtFailure(_, _, _, _, _)
CreateEntitiesStopAtFailure(d, entities, now, fs, acc) ==
  IF entities = <<>>
  THEN Finished(d, acc)
  ELSE LET entity == Head(entities)
           r == CreateEntity(d, entity.name, entity.entityType, entity.observations,
                             now, Head(fs))
       IN IF r.out.ok
             THEN CreateEntitiesStopAtFailure(r.db, Tail(entities), now, Tail(fs), Pushing(acc, r))
             ELSE Finished(r.db, Pushing(acc, r))

RECURSIVE CreateEntitiesLoop(_, _, _, _, _)
CreateEntitiesLoop(d, entities, now, fs, acc) ==
  IF entities = <<>>
  THEN Finished(d, acc)
  ELSE LET entity == Head(entities)
           r == CreateEntity(d, entity.name, entity.entityType, entity.observations,
                             now, Head(fs))
       IN CreateEntitiesLoop(r.db, Tail(entities), now, Tail(fs), Pushing(acc, r))

CreateEntities(d, entities, now, fs) == CreateEntitiesLoop(d, entities, now, fs, NoResults)

RECURSIVE CreateRelationsLoop(_, _, _, _, _)
CreateRelationsLoop(d, relations, now, fs, acc) ==
  IF relations = <<>>
  THEN Finished(d, acc)
  ELSE LET relation == Head(relations)
           r == CreateRelation(d, relation.from, relation.to, relation.relationType,
                               now, Head(fs))
       IN CreateRelationsLoop(r.db, Tail(relations), now, Tail(fs), Pushing(acc, r))

CreateRelations(d, relations, now, fs) ==
  CreateRelationsLoop(d, relations, now, fs, NoResults)

RECURSIVE AddObservationsLoop(_, _, _, _, _)
AddObservationsLoop(d, observations, now, fs, acc) ==
  IF observations = <<>>
  THEN Finished(d, acc)
  ELSE LET obs == Head(observations)
           r == AddObservation(d, obs.entityName, obs.contents, now, Head(fs))
       IN AddObservationsLoop(r.db, Tail(observations), now, Tail(fs), Pushing(acc, r))

AddObservations(d, observations, now, fs) ==
  AddObservationsLoop(d, observations, now, fs, NoResults)

RECURSIVE DeleteObservationsLoop(_, _, _, _, _)
DeleteObservationsLoop(d, deletions, now, fs, acc) ==
  IF deletions = <<>>
  THEN Finished(d, acc)
  ELSE LET deletion == Head(deletions)
           r == DeleteObservation(d, deletion.entityName, deletion.observations,
                                  now, Head(fs))
       IN DeleteObservationsLoop(r.db, Tail(deletions), now, Tail(fs), Pushing(acc, r))

DeleteObservations(d, deletions, now, fs) ==
  DeleteObservationsLoop(d, deletions, now, fs, NoResults)

\* The batch deletions: a plain loop, no try/catch (the single-item
\* deletions never throw).
RECURSIVE DeleteEntitiesLoop(_, _, _, _)
DeleteEntitiesLoop(d, entityNames, fs, calls) ==
  IF entityNames = <<>>
  THEN [db |-> d, calls |-> calls, out |-> Returned(<<>>)]
  ELSE LET r == DeleteEntity(d, Head(entityNames), Head(fs))
       IN DeleteEntitiesLoop(r.db, Tail(entityNames), Tail(fs), calls \o r.calls)

DeleteEntities(d, entityNames, fs) == DeleteEntitiesLoop(d, entityNames, fs, <<>>)

RECURSIVE DeleteRelationsLoop(_, _, _, _)
DeleteRelationsLoop(d, relations, fs, calls) ==
  IF relations = <<>>
  THEN [db |-> d, calls |-> calls, out |-> Returned(<<>>)]
  ELSE LET relation == Head(relations)
           r == DeleteRelation(d, relation.from, relation.to, relation.relationType,
                               Head(fs))
       IN DeleteRelationsLoop(r.db, Tail(relations), Tail(fs), calls \o r.calls)

DeleteRelations(d, relations, fs) == DeleteRelationsLoop(d, relations, fs, <<>>)

----------------------------------------------------------------------------
(* The engine driven by one caller at a time: every call runs to its end    *)
(* before the next one starts.                                             *)

ObsSeqs(n) == UNION {[1..k -> ObsStrings] : k \in 0..n}
Faults(n) == SUBSET (1..n)

EmptyStore == [entities |-> <<>>, relations |-> <<>>, sqlite_sequence |-> 0]
NoCall == [op |-> "none", args |-> <<>>, ok |-> TRUE, err |-> "", changes |-> 0]

StoredObservations(d, name) ==
  LET rows == SelectRows(d.entities, [name |-> name])
  IN IF rows = <<>> THEN <<>> ELSE JSONParse(rows[1].observations)

Init ==
  /\ db = EmptyStore
  /\ clock = 0
  /\ last = NoCall
  /\ procs = <<>>

Completed(op, args, r) ==
  /\ db' = r.db
  /\ last' = [op |-> op, args |-> args, ok |-> r.out.ok, err |-> r.out.err,
              changes |-> RowsWritten(r.calls)]
  /\ UNCHANGED <<clock, procs>>

\* An observation mutation also records its contents argument, the entity
\* as persisted before the call, the store calls and the returned Entity.
CompletedMutation(op, n, c, r) ==
  /\ db' = r.db
  /\ last' = [op |-> op, args |-> <<n>>, ok |-> r.out.ok, err |-> r.out.err,
              changes |-> RowsWritten(r.calls), contents |-> c,
              before |-> MapEntities(SelectRows(db.entities, [name |-> n])),
              calls |-> r.calls, val |-> r.out.val]
  /\ UNCHANGED <<clock, procs>>

\* A read records the value it returned.
CompletedRead(op, args, r) ==
  /\ db' = r.db
  /\ last' = [op |-> op, args |-> args, ok |-> r.out.ok, err |-> r.out.err,
              changes |-> RowsWritten(r.calls), val |-> r.out.val]
  /\ UNCHANGED <<clock, procs>>

Tick ==
  /\ clock < MaxClock
  /\ clock' = clock + 1
  /\ UNCHANGED <<db, last, procs>>

DoCreateEntity(n, t, o, f) ==
  Completed("createEntity", <<n>>, CreateEntity(db, n, t, o, clock, f))

DoCreateRelation(a, b, t, f) ==
  /\ db.sqlite_sequence < MaxRel
  /\ Completed("createRelation", <<a, b>>, CreateRelation(db, a, b, t, clock, f))

DoAddObservation(n, c, f) ==
  /\ Len(StoredObservations(db, n)) + Len(c) <= MaxObs
  /\ CompletedMutation("addObservation", n, c, AddObservation(db, n, c, clock, f))

DoDeleteObservation(n, o, f) ==
  CompletedMutation("deleteObservation", n, o, DeleteObservation(db, n, o, clock, f))

DoDeleteEntity(n, f) ==
  Completed("deleteEntity", <<n>>, DeleteEntity(db, n, f))

DoDeleteRelation(a, b, t, f) ==
  Completed("deleteRelation", <<a, b>>, DeleteRelation(db, a, b, t, f))

DoReadGraph(f) ==
  CompletedRead("readGraph", <<>>, ReadGraph(db, f))

(* Graph workload: entities and relations are created and deleted and the  *)
(* graph is read; all calls fall within one reading of the clock.           *)
Next ==
  \/ \E n \in Names, t \in EntityTypes, o \in ObsSeqs(1), f \in Faults(2) :
       DoCreateEntity(n, t, o, f)
  \/ \E a \in Names, b \in Names, t \in RelationTypes, f \in Faults(3) :
       DoCreateRelation(a, b, t, f)
  \/ \E n \in Names, f \in Faults(3) : DoDeleteEntity(n, f)
  \/ \E a \in Names, b \in Names, t \in RelationTypes, f \in Faults(1) :
       DoDeleteRelation(a, b, t, f)
  \/ \E f \in Faults(2) : DoReadGraph(f)

Spec == Init /\ [][Next]_vars

(* Observation workload: the clock runs.  The store file already holds    *)
(* entity "b" with a relation to itself (written by an earlier session);    *)
(* the observations of "a" are mutated, "b" is a bystander and "c" is      *)
(* never created.                                                          *)
Mutated == {"a", "c"}

StoreWithB ==
  [entities |-> <<[name |-> "b", entity_type |-> "T2",
                   observations |-> JSONStringify(<<>>),
                   created_at |-> 0, updated_at |-> 0]>>,
   relations |-> <<[id |-> 1, from_entity |-> "b", to_entity |-> "b",
                    relation_type |-> "r1", created_at |-> 0]>>,
   sqlite_sequence |-> 1]

InitObs ==
  /\ db = StoreWithB
  /\ clock = 0
  /\ last = NoCall
  /\ procs = <<>>

NextObs ==
  \/ Tick
  \/ \E n \in Names, o \in ObsSeqs(1), f \in Faults(2) :
       DoCreateEntity(n, "T1", o, f)
  \/ \E n \in Mutated, c \in ObsSeqs(2), f \in Faults(2) : DoAddObservation(n, c, f)
  \/ \E n \in Mutated, o \in ObsSeqs(1), f \in Faults(2) : DoDeleteObservation(n, o, f)

SpecObs == InitObs /\ [][NextObs]_vars

(* Batch workload: the batch forms, called one at a time, on entities "a"  *)
(* and "b"; relations start at "a", or at "c", which is never created.      *)
SeqsUpTo(S, n) == UNION {[1..k -> S] : k \in 0..n}
Min(i, j) == IF i < j THEN i ELSE j

EntityItems == {[name |-> n, entityType |-> "T1", observations |-> <<>>] : n \in Names}
RelationItems ==
  {[from |-> e[1], to |-> e[2], relationType |-> "r1"] :
     e \in {<<"a", "a">>, <<"a", "b">>, <<"c", "a">>}}
AdditionItems == {[entityName |-> n, contents |-> << <<"x">> >>] : n \in Mutated}
DeletionItems == {[entityName |-> n, observations |-> << <<"x">> >>] : n \in Mutated}
\* The store call of an item that may fail by injection: the insert of
\* createEntity.  Items of the other batch forms fail on the unknown "c".
EntityFaults == {{}, {2}}
NoFaults(items) == [i \in DOMAIN items |-> {}]
\* At most one item of a batch meets failing store calls.
FaultPlans(items, F) ==
  {fs \in [DOMAIN items -> F] : \A i, j \in DOMAIN items : i # j => fs[i] = {} \/ fs[j] = {}}

EndsOf(x) == <<x.from, x.to>>

\* A batch call records, per item, its key, and whether it returned.
CompletedBatch(op, keys, r, resultKeys) ==
  /\ db' = r.db
  /\ last' = [op |-> op, args |-> keys, ok |-> r.out.ok, err |-> r.out.err,
              changes |-> RowsWritten(r.calls), attempts |-> r.attempts,
              results |-> resultKeys]
  /\ UNCHANGED <<clock, procs>>

DoCreateEntities(entities, fs) ==
  \E r \in {CreateEntities(db, entities, clock, fs)} :
     CompletedBatch("createEntities", [i \in DOMAIN entities |-> entities[i].name], r,
                    [i \in DOMAIN r.out.val |-> r.out.val[i].name])

DoCreateRelations(relations, fs) ==
  /\ db.sqlite_sequence + Len(relations) <= MaxRel
  /\ \E r \in {CreateRelations(db, relations, clock, fs)} :
       CompletedBatch("createRelations",
                       [i \in DOMAIN relations |-> EndsOf(relations[i])], r,
                       [i \in DOMAIN r.out.val |-> EndsOf(r.out.val[i])])

DoAddObservations(observations, fs) ==
  /\ \A i \in DOMAIN observations :
       Len(StoredObservations(db, observations[i].entityName)) + Len(observations)
         <= MaxObs
  /\ \E r \in {AddObservations(db, observations, clock, fs)} :
       CompletedBatch("addObservations",
                       [i \in DOMAIN observations |-> observations[i].entityName], r,
                       [i \in DOMAIN r.out.val |-> r.out.val[i].name])

DoDeleteObservations(deletions, fs) ==
  \E r \in {DeleteObservations(db, deletions, clock, fs)} :
     CompletedBatch("deleteObservations",
                    [i \in DOMAIN deletions |-> deletions[i].entityName], r,
                    [i \in DOMAIN r.out.val |-> r.out.val[i].name])

NextBatch ==
  \/ \E entities \in SeqsUpTo(EntityItems, MaxBatch) :
       \E fs \in FaultPlans(entities, EntityFaults) : DoCreateEntities(entities, fs)
  \/ \E relations \in SeqsUpTo(RelationItems, Min(MaxBatch, MaxRel)) :
       DoCreateRelations(relations, NoFaults(relations))
  \/ \E observations \in SeqsUpTo(AdditionItems, Min(MaxBatch, MaxObs)) :
       DoAddObservations(observations, NoFaults(observations))
  \/ \E deletions \in SeqsUpTo(DeletionItems, MaxBatch) :
       DoDeleteObservations(deletions, NoFaults(deletions))

SpecBatch == Init /\ [][NextBatch]_vars

(* Concurrent workload: two callers run createEntity, each call one store  *)
(* call at a time (every `await` of a store call is a point where the other *)
(* caller may run).  A caller that has returned may call again, as the loop *)
(* of createEntities does for its items.                                   *)
Callers == {1, 2}
TypeOf(p) == IF p = 1 THEN "T1" ELSE "T2"

Idle == [pc |-> "idle", name |-> "", now |-> 0, ok |-> TRUE, err |-> "", peers |-> {}]

InitConc ==
  /\ db = EmptyStore
  /\ clock = 0
  /\ last = NoCall
  /\ procs = [p \in Callers |-> Idle]

\* createEntity is entered: `now` is read, the existence query is next.
Begin(p, n) ==
  /\ procs[p].pc = "idle"
  /\ procs' = [procs EXCEPT ![p] = [Idle EXCEPT !.pc = "check", !.name = n, !.now = clock]]
  /\ UNCHANGED <<db, clock, last>>

\* The existence query answers.  A caller that passes it while another
\* caller stands between its own passed check and its insert of the same
\* name is in a race with that caller (recorded in peers).
CheckExisting(p, fail) ==
  /\ procs[p].pc = "check"
  /\ LET existing == QueryData(db, "entities", [name |-> procs[p].name], fail)
         racing == {q \in Callers \ {p} :
                      procs[q].pc = "insert" /\ procs[q].name = procs[p].name}
     IN IF existing.success /\ Len(existing.rows) > 0
        THEN procs' = [procs EXCEPT ![p].pc = "done", ![p].ok = FALSE,
                                    ![p].err = AlreadyExists]
        ELSE procs' = [q \in Callers |->
                         IF q = p THEN [procs[p] EXCEPT !.pc = "insert", !.peers = racing]
                         ELSE IF q \in racing
                         THEN [procs[q] EXCEPT !.peers = @ \cup {p}]
                         ELSE procs[q]]
  /\ UNCHANGED <<db, clock, last>>

\* The insert answers.
Insert(p, fail) ==
  /\ procs[p].pc = "insert"
  /\ LET insertResult ==
           InsertData(db, "entities",
                      <<[name |-> procs[p].name, entity_type |-> TypeOf(p),
                         observations |-> JSONStringify(<<>>),
                         created_at |-> procs[p].now, updated_at |-> procs[p].now]>>,
                      IF fail THEN 1 ELSE 0)
     IN /\ db' = insertResult.db
        /\ procs' = [procs EXCEPT ![p].pc = "done",
                                  ![p].ok = insertResult.success,
                                  ![p].err = IF insertResult.success THEN ""
                                             ELSE FailedToCreateEntity]
  /\ UNCHANGED <<clock, last>>

\* The caller has its result and is free to call again.
Return(p) ==
  /\ procs[p].pc = "done"
  /\ procs' = [procs EXCEPT ![p] = Idle]
  /\ UNCHANGED <<db, clock, last>>

NextConc ==
  \/ \E p \in Callers, n \in Names : Begin(p, n)
  \/ \E p \in Callers, fail \in BOOLEAN : CheckExisting(p, fail)
  \/ \E p \in Callers, fail \in BOOLEAN : Insert(p, fail)
  \/ \E p \in Callers : Return(p)

SpecConc == InitConc /\ [][NextConc]_vars

----------------------------------------------------------------------------
(* Properties.  A property of an operation is stated for every store the   *)
(* workload reaches and every argument and store outcome of the call.      *)

Exists(d, n) == \E i \in DOMAIN d.entities : d.entities[i].name = n
EntityRow(d, n) == SelectRows(d.entities, [name |-> n])[1]
Touches(row, e) == row.from_entity = e \/ row.to_entity = e
NoFault == {}

\* C1: createEntity(n, ...) on a store that holds an entity named n fails
\* and leaves the store as it was; the error is the duplicate-entity error
\* whenever the existence read answered.  A createEntity that returned has
\* created n, so a second createEntity(n, ...) fails.
C1_DuplicateRejected ==
  \A n \in Names, t \in EntityTypes, o \in ObsSeqs(1), f \in Faults(2) :
    LET r == CreateEntity(db, n, t, o, clock, f)
    IN /\ Exists(db, n) =>
            /\ ~r.out.ok
            /\ r.db = db
            /\ r.calls[1].success => r.out.err = AlreadyExists
       /\ (~Exists(db, n) /\ f = NoFault) => r.out.ok
       /\ r.out.ok =>
            /\ Exists(r.db, n)
            /\ \A t2 \in EntityTypes, o2 \in ObsSeqs(1) :
                 LET r2 == CreateEntity(r.db, n, t2, o2, clock, NoFault)
                 IN ~r2.out.ok /\ r2.out.err = AlreadyExists /\ r2.db = r.db

C1_Witness ==
  /\ last.op = "createEntity"
  /\ last.err = AlreadyExists
  /\ last.changes = 0
  /\ Exists(db, last.args[1])
  /\ Len(db.relations) > 0

\* C2 (as claimed): createRelation(a, b, t) fails with the unknown-entity
\* error and changes nothing when a or b has no entity row; when both exist
\* (and the store calls succeed) it succeeds, and a following readGraph()
\* holds the relation: what readGraph() returns holds every stored relation.
C2_CreateRelationThenReadGraph ==
  /\ \A a \in Names, b \in Names, t \in RelationTypes, f \in Faults(3) :
       LET r == CreateRelation(db, a, b, t, clock, f)
       IN /\ (~Exists(db, a) \/ ~Exists(db, b)) =>
               ~r.out.ok /\ r.out.err = DoesNotExist /\ r.db = db
          /\ (Exists(db, a) /\ Exists(db, b) /\ f = NoFault) =>
               r.out.ok /\ Len(r.db.relations) = Len(db.relations) + 1
  /\ last.op = "readGraph" =>
       \A i \in DOMAIN db.relations :
         \E k \in DOMAIN last.val.relations :
           last.val.relations[k] = RelationOfRow(db.relations[i])

\* C2, the part about createRelation alone: the referential precondition
\* and the inserted row.
C2_ReferentialPrecondition ==
  \A a \in Names, b \in Names, t \in RelationTypes, f \in Faults(3) :
    LET r == CreateRelation(db, a, b, t, clock, f)
    IN /\ (~Exists(db, a) \/ ~Exists(db, b)) =>
            ~r.out.ok /\ r.out.err = DoesNotExist /\ r.db = db
       /\ (Exists(db, a) /\ Exists(db, b) /\ f = NoFault) =>
            /\ r.out.ok
            /\ r.db.entities = db.entities
            /\ r.db.relations =
                 Append(db.relations,
                        [id |-> db.sqlite_sequence + 1, from_entity |-> a,
                         to_entity |-> b, relation_type |-> t, created_at |-> clock])

\* C3: when its three store deletes succeed, deleteEntity(e) leaves the
\* store without the entity row e and without exactly the relation rows
\* whose from or to is e; every other row is as before, in order; and
\* readGraph() shows neither e nor a relation touching e.
C3_Cascade ==
  \A e \in Names :
    LET r == DeleteEntity(db, e, NoFault)
        g == ReadGraph(r.db, NoFault).out.val
        KeepEntity(row) == row.name # e
        KeepRelation(row) == ~Touches(row, e)
    IN /\ r.out.ok
       /\ r.db.entities = SelectSeq(db.entities, KeepEntity)
       /\ r.db.relations = SelectSeq(db.relations, KeepRelation)
       /\ r.db.sqlite_sequence = db.sqlite_sequence
       /\ \A i \in DOMAIN g.entities : g.entities[i].name # e
       /\ \A i \in DOMAIN g.relations :
            g.relations[i].from # e /\ g.relations[i].to # e

C3_Witness ==
  /\ last.op = "deleteEntity"
  /\ last.changes = 3
  /\ ~Exists(db, last.args[1])
  /\ Len(db.entities) = 1
  /\ \A i \in DOMAIN db.relations : ~Touches(db.relations[i], last.args[1])

\* C4 (as claimed): between the operations of a sequential execution every
\* relation row's from and to name existing entity rows.
C4_NoDanglingEdges ==
  \A i \in DOMAIN db.relations :
    Exists(db, db.relations[i].from_entity) /\ Exists(db, db.relations[i].to_entity)

\* C5: under every interleaving of concurrent createEntity calls the
\* entities table never holds two rows with one name, and of two calls for
\* one name that both passed the existence check before either inserted, a
\* call that returns an Entity has the other one fail.
C5_UniqueNames ==
  /\ \A i \in DOMAIN db.entities, j \in DOMAIN db.entities :
       db.entities[i].name = db.entities[j].name => i = j
  /\ \A p \in DOMAIN procs, q \in DOMAIN procs :
       (/\ p # q
        /\ q \in procs[p].peers /\ p \in procs[q].peers
        /\ procs[p].pc = "done" /\ procs[q].pc = "done"
        /\ procs[p].ok)
       => (~procs[q].ok /\ procs[q].err = FailedToCreateEntity)

C5_Witness ==
  /\ DOMAIN procs = Callers
  /\ procs[1].pc = "done" /\ procs[2].pc = "done"
  /\ procs[1].name = procs[2].name
  /\ 2 \in procs[1].peers /\ 1 \in procs[2].peers
  /\ procs[2].ok
  /\ procs[1].err = FailedToCreateEntity
  /\ Len(SelectRows(db.entities, [name |-> procs[1].name])) = 1
  /\ EntityRow(db, procs[1].name).entity_type = TypeOf(2)

IsBatch(op) ==
  op \in {"createEntities", "createRelations", "addObservations", "deleteObservations"}

RECURSIVE Successes(_, _)
Successes(keys, attempts) ==
  IF keys = <<>> THEN <<>>
  ELSE (IF Head(attempts) THEN <<Head(keys)>> ELSE <<>>)
         \o Successes(Tail(keys), Tail(attempts))

Item(n) == [name |-> n, entityType |-> "T1", observations |-> <<>>]

IsAddOrDelete(op) == op \in {"addObservation", "deleteObservation"}

Mutation(op) == last.op = op /\ last.ok
Target == last.args[1]

\* C7 (as claimed): for an existing entity e with persisted observations O,
\* an addObservation(e, C) that returned has persisted O followed by C and
\* returned an Entity whose observations are the persisted sequence.
C7_AppendPersisted ==
  Mutation("addObservation") =>
    /\ StoredObservations(db, Target) = last.before[1].observations \o last.contents
    /\ last.val.observations = StoredObservations(db, Target)

\* C7, when the store update succeeds: O followed by C is persisted and
\* returned, for every store reached and every argument.
C7_AppendWhenUpdated ==
  \A n \in Mutated, c \in ObsSeqs(2), f \in Faults(2) :
    LET r == AddObservation(db, n, c, clock, f)
    IN (Exists(db, n) /\ r.out.ok /\ r.calls[2].success) =>
         /\ StoredObservations(r.db, n) = StoredObservations(db, n) \o c
         /\ r.out.val.observations = StoredObservations(r.db, n)

\* C8 (as claimed): for an existing entity e with persisted observations O,
\* a deleteObservation(e, S) that returned has persisted, and returned, the
\* subsequence of O of the elements not in S (every occurrence removed,
\* order kept).
C8_FilterPersisted ==
  Mutation("deleteObservation") =>
    LET Keep(x) == \A i \in DOMAIN last.contents : last.contents[i] # x
    IN /\ StoredObservations(db, Target) =
            SelectSeq(last.before[1].observations, Keep)
       /\ last.val.observations = StoredObservations(db, Target)

\* C8, when the store update succeeds.
C8_FilterWhenUpdated ==
  \A n \in Mutated, o \in ObsSeqs(1), f \in Faults(2) :
    LET r == DeleteObservation(db, n, o, clock, f)
        Keep(x) == \A i \in DOMAIN o : o[i] # x
    IN (Exists(db, n) /\ r.out.ok /\ r.calls[2].success) =>
         /\ StoredObservations(r.db, n) = SelectSeq(StoredObservations(db, n), Keep)
         /\ r.out.val.observations = StoredObservations(r.db, n)

\* C9: addObservation and deleteObservation for a name without an entity
\* row throw the unknown-entity error, create no entity and leave the store
\* as it was.
C9_UnknownEntity ==
  \A n \in Mutated \cup Names, c \in ObsSeqs(2), f \in Faults(2) :
    ~Exists(db, n) =>
      LET ra == AddObservation(db, n, c, clock, f)
          rd == DeleteObservation(db, n, c, clock, f)
      IN /\ ~ra.out.ok /\ ra.out.err = DoesNotExist /\ ra.db = db
         /\ ~rd.out.ok /\ rd.out.err = DoesNotExist /\ rd.db = db
         /\ ~Exists(ra.db, n) /\ ~Exists(rd.db, n)

C9_Witness ==
  /\ IsAddOrDelete(last.op)
  /\ ~last.ok
  /\ last.err = DoesNotExist
  /\ ~Exists(db, last.args[1])
  /\ Exists(db, "a")

UpdatedAt(d, n) == EntityRow(d, n).updated_at

----------------------------------------------------------------------------
(* Frame conditions and deletions.                                         *)

\* Every row of d that is still in d2 (same name, same relation id) has
\* its immutable fields as before.
Preserved(d, d2) ==
  /\ \A i \in DOMAIN d.entities, j \in DOMAIN d2.entities :
       d.entities[i].name = d2.entities[j].name =>
         /\ d.entities[i].entity_type = d2.entities[j].entity_type
         /\ d.entities[i].created_at = d2.entities[j].created_at
  /\ \A i \in DOMAIN d.relations, j \in DOMAIN d2.relations :
       d.relations[i].id = d2.relations[j].id => d.relations[i] = d2.relations[j]

\* Only the observations and updated_at of entity n may differ.
OnlyObservationsOf(n, d, d2) ==
  /\ d2.relations = d.relations
  /\ d2.sqlite_sequence = d.sqlite_sequence
  /\ DOMAIN d2.entities = DOMAIN d.entities
  /\ \A i \in DOMAIN d.entities :
       IF d.entities[i].name = n
       THEN /\ d2.entities[i].name = d.entities[i].name
            /\ d2.entities[i].entity_type = d.entities[i].entity_type
            /\ d2.entities[i].created_at = d.entities[i].created_at
       ELSE d2.entities[i] = d.entities[i]

\* C11: no engine operation changes the name, entityType or createdAt of an
\* entity row that stays in the store, or any field of a relation row that
\* stays; an observation mutation on e changes only the observations and
\* updatedAt of e, every other entity row and every relation row is as
\* before.  For every store reached, every argument and every store outcome.
C11_OnlyObservationsMutable ==
  /\ \A n \in Names \cup Mutated :
       /\ \A t \in EntityTypes, o \in ObsSeqs(1), f \in Faults(2) :
            Preserved(db, CreateEntity(db, n, t, o, clock, f).db)
       /\ \A f \in Faults(3) : Preserved(db, DeleteEntity(db, n, f).db)
       /\ \A c \in ObsSeqs(2), f \in Faults(2) :
            /\ OnlyObservationsOf(n, db, AddObservation(db, n, c, clock, f).db)
            /\ OnlyObservationsOf(n, db, DeleteObservation(db, n, c, clock, f).db)
  /\ \A a \in Names, b \in Names, t \in RelationTypes :
       /\ \A f \in Faults(3) : Preserved(db, CreateRelation(db, a, b, t, clock, f).db)
       /\ \A f \in Faults(1) : Preserved(db, DeleteRelation(db, a, b, t, f).db)
  /\ \A f \in Faults(2) : ReadGraph(db, f).db = db

C11_Witness ==
  /\ IsAddOrDelete(last.op)
  /\ last.ok
  /\ last.changes = 1
  /\ StoredObservations(db, Target) # last.before[1].observations
  /\ EntityRow(db, Target).entity_type = last.before[1].entityType
  /\ EntityRow(db, Target).created_at < clock
  /\ EntityRow(db, "b") = StoreWithB.entities[1]
  /\ db.relations = StoreWithB.relations

NoDangling(d) ==
  \A i \in DOMAIN d.relations :
    Exists(d, d.relations[i].from_entity) /\ Exists(d, d.relations[i].to_entity)

Unknown == "c"

\* deleteEntities(names) against deleteEntity on each name in order.
DeletedInOrder(names, fs) ==
  IF Len(names) = 0 THEN db
  ELSE IF Len(names) = 1 THEN DeleteEntity(db, names[1], fs[1]).db
  ELSE DeleteEntity(DeleteEntity(db, names[1], fs[1]).db, names[2], fs[2]).db

\* C12 (as claimed): deleteEntity(name) for a name without an entity row
\* raises no error and, in a store without dangling relations, changes
\* nothing; deleteEntity(name) applied twice leaves the same store as applied
\* once (after a deleteEntity(name) that returned, one more changes
\* nothing); deleteEntities(names) has the effect of deleteEntity on each
\* name in order, also for repeated and unknown names.
C12_IdempotentDelete ==
  /\ \A n \in Names \cup {Unknown}, f \in Faults(3) :
       LET r == DeleteEntity(db, n, f)
       IN /\ r.out.ok
          /\ (~Exists(db, n) /\ NoDangling(db)) => r.db = db
  /\ last.op = "deleteEntity" =>
       /\ last.ok
       /\ DeleteEntity(db, last.args[1], NoFault).db = db
  /\ \A names \in SeqsUpTo(Names \cup {Unknown}, 2) :
       \A fs \in [DOMAIN names -> Faults(3)] :
         LET r == DeleteEntities(db, names, fs)
         IN r.out.ok /\ r.db = DeletedInOrder(names, fs)

\* C12, when the store deletes succeed.
C12_IdempotentWhenDeleted ==
  /\ \A n \in Names \cup {Unknown} :
       LET once == DeleteEntity(db, n, NoFault)
           twice == DeleteEntity(once.db, n, NoFault)
       IN /\ once.out.ok /\ twice.out.ok
          /\ twice.db = once.db
          /\ (~Exists(db, n) /\ NoDangling(db)) => once.db = db
  /\ \A names \in SeqsUpTo(Names \cup {Unknown}, 2) :
       LET r == DeleteEntities(db, names, NoFaults(names))
       IN r.out.ok /\ r.db = DeletedInOrder(names, NoFaults(names))

IsTriple(row, from, to, relationType) ==
  /\ row.from_entity = from
  /\ row.to_entity = to
  /\ row.relation_type = relationType

\* C13 (as claimed): deleteRelation(from, to, relationType) removes every
\* relation row with that triple (after it returned, no such row is left)
\* and nothing else: the other relation rows, in order, and all entity rows
\* are unchanged; it raises no error when no row matches.
C13_DeleteRelationExact ==
  /\ \A a \in Names, b \in Names, t \in RelationTypes, f \in Faults(1) :
       LET r == DeleteRelation(db, a, b, t, f)
           Other(row) == ~IsTriple(row, a, b, t)
       IN /\ r.out.ok
          /\ r.db.entities = db.entities
          /\ SelectSeq(r.db.relations, Other) = SelectSeq(db.relations, Other)
  /\ last.op = "deleteRelation" =>
       \A i \in DOMAIN db.relations :
         \A t \in RelationTypes :
           ~IsTriple(db.relations[i], last.args[1], last.args[2], t)

\* C13, when the store delete succeeds.
C13_ExactWhenDeleted ==
  \A a \in Names, b \in Names, t \in RelationTypes :
    LET r == DeleteRelation(db, a, b, t, NoFault)
        Other(row) == ~IsTriple(row, a, b, t)
    IN /\ r.out.ok
       /\ r.db.entities = db.entities
       /\ r.db.relations = SelectSeq(db.relations, Other)

\* Number of elements of a sequence that satisfy Test.
Count(seq, Test(_)) == Cardinality({i \in DOMAIN seq : Test(seq[i])})

\* Two calls of createRelation(a, b, t) in a row, store calls succeeding:
\* both return, each inserts one more row of that triple under a new id.
InsertsAgain(a, b, t) ==
  LET r1 == CreateRelation(db, a, b, t, clock, NoFault)
      r2 == CreateRelation(r1.db, a, b, t, clock, NoFault)
      Same(row) == IsTriple(row, a, b, t)
  IN /\ r1.out.ok /\ r2.out.ok
     /\ Count(r1.db.relations, Same) = Count(db.relations, Same) + 1
     /\ Count(r2.db.relations, Same) = Count(db.relations, Same) + 2
     /\ \A i \in DOMAIN r2.db.relations, j \in DOMAIN r2.db.relations :
          r2.db.relations[i].id = r2.db.relations[j].id => i = j

\* C14 (as claimed): with both ends existing, every createRelation with the
\* same triple succeeds and inserts a new row, and the store and readGraph()
\* then hold that many relations of the triple: readGraph() returns as many
\* relations of each triple as the store holds.
C14_DuplicateRelations ==
  /\ \A a \in Names, b \in Names, t \in RelationTypes :
       (Exists(db, a) /\ Exists(db, b)) => InsertsAgain(a, b, t)
  /\ last.op = "readGraph" =>
       \A a \in Names, b \in Names, t \in RelationTypes :
         LET Stored(row) == IsTriple(row, a, b, t)
             Read(rel) == rel.from = a /\ rel.to = b /\ rel.relationType = t
         IN Count(last.val.relations, Read) = Count(db.relations, Stored)

\* C14, the part about the store alone.
C14_NoDuplicateCheck ==
  \A a \in Names, b \in Names, t \in RelationTypes :
    (Exists(db, a) /\ Exists(db, b)) => InsertsAgain(a, b, t)

\* C15 (as claimed): readGraph() returns exactly the entity rows and exactly
\* the relation rows persisted, each once, observations as stored and in
\* stored order, and changes nothing in the store.
C15_ReadGraphExact ==
  /\ \A f \in Faults(2) : ReadGraph(db, f).db = db
  /\ last.op = "readGraph" =>
       /\ last.ok
       /\ last.val.entities = MapEntities(db.entities)
       /\ last.val.relations = MapRelations(db.relations)

\* What readGraph() does return: the empty graph, whatever the store holds,
\* and the store is left as it was.
C15_ReadGraphEmpty ==
  \A f \in Faults(2) :
    LET r == ReadGraph(db, f)
    IN /\ r.out.ok
       /\ r.db = db
       /\ r.out.val = [entities |-> <<>>, relations |-> <<>>]
       /\ \A i \in DOMAIN r.calls : ~r.calls[i].success

----------------------------------------------------------------------------
(* Reading: searchNodes, openNode, openNodes.  For the search, names and    *)
(* types are texts (sequences of characters), as the stored observations    *)
(* text is.                                                                *)

MaxQuery == 2     \* longest query text

Chars == {"a", "A", "b", "_", "%"}

\* String.prototype.toLowerCase and SQL LOWER(), on the letters used.
LowerChar(c) == IF c = "A" THEN "a" ELSE c
ToLowerCase(text) == [i \in DOMAIN text |-> LowerChar(text[i])]
SqlLower(text) == [i \in DOMAIN text |-> LowerChar(text[i])]

\* The SQL LIKE operator of sqlite: % matches any run of characters, also
\* the empty one, _ matches any one character, a letter matches itself in
\* either case; no ESCAPE character is declared.
RECURSIVE Like(_, _)
Like(text, pattern) ==
  IF pattern = <<>> THEN text = <<>>
  ELSE IF Head(pattern) = "%"
  THEN Like(text, Tail(pattern)) \/ (text # <<>> /\ Like(Tail(text), pattern))
  ELSE IF text = <<>> THEN FALSE
  ELSE IF Head(pattern) = "_" THEN Like(Tail(text), Tail(pattern))
  ELSE /\ LowerChar(Head(pattern)) = LowerChar(Head(text))
       /\ Like(Tail(text), Tail(pattern))

\* executeSql with a SELECT: the rows the statement selects, or
\* success = false from its catch.
ExecuteSelect(selected, fail) ==
  IF fail THEN [success |-> FALSE, rows |-> <<>>]
  ELSE [success |-> TRUE, rows |-> selected]

SearchNodes(d, query, f) ==
  LET searchTerm == <<"%">> \o ToLowerCase(query) \o <<"%">>
      EntityWhere(row) ==
        \/ Like(SqlLower(row.name), searchTerm)
        \/ Like(SqlLower(row.entity_type), searchTerm)
        \/ Like(SqlLower(row.observations), searchTerm)
      RelationWhere(row) ==
        \/ Like(SqlLower(row.relation_type), searchTerm)
        \/ Like(SqlLower(row.from_entity), searchTerm)
        \/ Like(SqlLower(row.to_entity), searchTerm)
      entitiesResult == ExecuteSelect(SelectSeq(d.entities, EntityWhere), 1 \in f)
      relationsResult == ExecuteSelect(SelectSeq(d.relations, RelationWhere), 2 \in f)
  IN [db |-> d,
      calls |-> <<Call("executeSql", "entities", entitiesResult, 0),
                  Call("executeSql", "relations", relationsResult, 0)>>,
      out |-> Returned([entities |-> IF entitiesResult.success
                                     THEN MapEntities(entitiesResult.rows) ELSE <<>>,
                        relations |-> IF relationsResult.success
                                      THEN MapRelations(relationsResult.rows) ELSE <<>>])]

\* openNode: null (here <<>>) when the read failed or found no row.
OpenNode(d, name, f) ==
  LET result == QueryData(d, "entities", [name |-> name], 1 \in f)
  IN [db |-> d, calls |-> <<Call("queryData", "entities", result, 0)>>,
      out |-> Returned(IF ~result.success \/ Len(result.rows) = 0
                       THEN <<>>
                       ELSE <<EntityOfRow(result.rows[1])>>)]

RECURSIVE OpenNodesLoop(_, _, _, _)
OpenNodesLoop(d, names, fs, acc) ==
  IF names = <<>>
  THEN [db |-> d, calls |-> acc.calls, out |-> Returned(acc.entities)]
  ELSE LET r == OpenNode(d, Head(names), Head(fs))
       IN OpenNodesLoop(r.db, Tail(names), Tail(fs),
                        [calls |-> acc.calls \o r.calls,
                         entities |-> acc.entities \o r.out.val])

OpenNodes(d, names, fs) ==
  OpenNodesLoop(d, names, fs, [calls |-> <<>>, entities |-> <<>>])

(* Lookup workload: entities and relations with textual names are created  *)
(* without store failures, then searched and opened.                        *)

TextNames == {<<"A", "b">>, <<"b">>}
TextType == <<"t">>
TextRelationType == <<"a">>
TextObservations == {<<>>, << <<"a", "_">> >>}
Absent == <<"t">>             \* a name no entity is created with
Queries == SeqsUpTo(Chars, MaxQuery)

\* A lookup records the store calls it made and the value it returned.
CompletedLookup(op, args, r) ==
  /\ db' = r.db
  /\ last' = [op |-> op, args |-> args, ok |-> r.out.ok, err |-> r.out.err,
              changes |-> RowsWritten(r.calls), calls |-> r.calls,
              val |-> r.out.val]
  /\ UNCHANGED <<clock, procs>>

StoreText(n, o) ==
  Completed("createEntity", <<n>>, CreateEntity(db, n, TextType, o, clock, {}))

LinkText(a) ==
  /\ db.sqlite_sequence < MaxRel
  /\ Completed("createRelation", <<a, <<"b">>>>,
               CreateRelation(db, a, <<"b">>, TextRelationType, clock, {}))

DoSearchNodes(q, f) ==
  CompletedLookup("searchNodes", <<q>>, SearchNodes(db, q, f))

DoOpenNodes(names, fs) ==
  CompletedLookup("openNodes", names, OpenNodes(db, names, fs))

DoOpenNode(name, f) ==
  CompletedLookup("openNode", <<name>>, OpenNode(db, name, f))

NextLookup ==
  \/ \E n \in TextNames, o \in TextObservations : StoreText(n, o)
  \/ \E a \in TextNames : LinkText(a)
  \/ \E q \in Queries, f \in Faults(2) : DoSearchNodes(q, f)
  \/ \E names \in SeqsUpTo(TextNames \cup {Absent}, 2) :
       \E fs \in [DOMAIN names -> Faults(1)] : DoOpenNodes(names, fs)
  \/ \E name \in TextNames \cup {Absent}, f \in Faults(1) : DoOpenNode(name, f)

SpecLookup == Init /\ [][NextLookup]_vars

----------------------------------------------------------------------------
(* Search.                                                                 *)

\* query occurs in text as a run of consecutive characters.
Contains(text, query) ==
  \E i \in 0..(Len(text) - Len(query)) : SubSeq(text, i + 1, i + Len(query)) = query

AllSucceeded(calls) == \A i \in DOMAIN calls : calls[i].success

Query == last.args[1]

EntityContains(row, q) ==
  \/ Contains(ToLowerCase(row.name), ToLowerCase(q))
  \/ Contains(ToLowerCase(row.entity_type), ToLowerCase(q))
  \/ Contains(ToLowerCase(row.observations), ToLowerCase(q))

Literal(q) == \A i \in DOMAIN q : q[i] \notin {"%", "_"}

\* C16: searchNodes(q) whose store reads succeeded returns exactly the
\* entities that have lowercase(q) as a run of consecutive characters in the
\* lowercased name, entityType or observations text, none missing and none
\* extra, for queries over letters of both cases, % and _.
C16_SearchBySubstring ==
  (last.op = "searchNodes" /\ AllSucceeded(last.calls)) =>
    LET Matching(row) == EntityContains(row, Query)
    IN last.val.entities = MapEntities(SelectSeq(db.entities, Matching))

\* What holds instead: the claimed result for a query without % and _, and
\* at least the claimed entities for any query.
C16_LiteralQueries ==
  \A q \in Queries : \E r \in {SearchNodes(db, q, {})} :
    LET Matching(row) == EntityContains(row, q)
        Found(row) == EntityOfRow(row) \in Range(r.out.val.entities)
    IN /\ Literal(q) =>
            r.out.val.entities = MapEntities(SelectSeq(db.entities, Matching))
       /\ \A i \in DOMAIN db.entities :
            Matching(db.entities[i]) => Found(db.entities[i])

RelationContains(row, q) ==
  \/ Contains(ToLowerCase(row.relation_type), ToLowerCase(q))
  \/ Contains(ToLowerCase(row.from_entity), ToLowerCase(q))
  \/ Contains(ToLowerCase(row.to_entity), ToLowerCase(q))

\* C17: in the result of searchNodes(q) whose store reads succeeded, the
\* relations are exactly those with lowercase(q) as a run of consecutive
\* characters in their own relationType, from or to, whatever entities
\* matched, and the entities are those returned when no relation is stored.
C17_RelationsBySubstring ==
  (last.op = "searchNodes" /\ AllSucceeded(last.calls)) =>
    LET Matching(row) == RelationContains(row, Query)
    IN /\ last.val.relations = MapRelations(SelectSeq(db.relations, Matching))
       /\ last.val.entities =
            SearchNodes([db EXCEPT !.relations = <<>>], Query, {}).out.val.entities

\* What holds instead: either list is computed from its own table alone, and
\* for a query without % and _ the relations are the claimed ones.
C17_Independent ==
  \A q \in Queries :
    \E r \in {SearchNodes(db, q, {})} :
      LET Matching(row) == RelationContains(row, q)
      IN /\ r.out.val.relations =
              SearchNodes([db EXCEPT !.entities = <<>>], q, {}).out.val.relations
         /\ r.out.val.entities =
              SearchNodes([db EXCEPT !.relations = <<>>], q, {}).out.val.entities
         /\ Literal(q) =>
              r.out.val.relations = MapRelations(SelectSeq(db.relations, Matching))

----------------------------------------------------------------------------
(* Opening nodes.                                                          *)

NameLists == SeqsUpTo(TextNames \cup {Absent}, 2)

\* The entities of the names that have a row, in the order of names.
RECURSIVE Resolved(_, _)
Resolved(d, names) ==
  IF names = <<>> THEN <<>>
  ELSE MapEntities(SelectRows(d.entities, [name |-> Head(names)]))
         \o Resolved(d, Tail(names))

\* C18: openNodes(names) raises no error, changes nothing in the store and
\* returns, in the order of names, the entities of exactly the names that
\* have an entity row, a name listed twice yielding its entity twice.
C18_OpenNodesExact ==
  /\ \A names \in NameLists : \A fs \in [DOMAIN names -> Faults(1)] :
       \E r \in {OpenNodes(db, names, fs)} : r.out.ok /\ r.db = db
  /\ last.op = "openNodes" => last.val = Resolved(db, last.args)

\* What holds instead: the claimed result when every store read succeeds,
\* and otherwise no entity that is not stored and no error.
C18_ExactWhenRead ==
  \A names \in NameLists :
    /\ OpenNodes(db, names, [i \in DOMAIN names |-> {}]).out.val = Resolved(db, names)
    /\ \A fs \in [DOMAIN names -> Faults(1)] :
         \E r \in {OpenNodes(db, names, fs)} :
           /\ r.out.ok /\ r.db = db
           /\ Range(r.out.val) \subseteq Range(Resolved(db, names))
           /\ Len(r.out.val) <= Len(Resolved(db, names))

----------------------------------------------------------------------------
(* Initialization.  Here the store also carries its schema: the tables and *)
(* the indexes that exist.  initializeMemoryDatabase issues up to seven     *)
(* statements, numbered in the order of issue; f is the set of the numbers  *)
(* of the statements that fail when issued.  No transaction spans them.     *)

Tables == {"entities", "relations"}
RelationIndexes == <<"idx_relations_from", "idx_relations_to", "idx_relations_type">>
EntityIndexes == <<"idx_entities_type", "idx_entities_updated">>
Indexes == Range(RelationIndexes) \cup Range(EntityIndexes)
Statements == 1..7
TableStatements == {1, 2}
RelationIndexStatements == {3, 4, 5}
EntityIndexStatements == {6, 7}

FailedEntitiesTable == "Failed to create entities table"
FailedRelationsTable == "Failed to create relations table"

NoSchema ==
  [entities |-> <<>>, relations |-> <<>>, sqlite_sequence |-> 0,
   tables |-> {}, indexes |-> {}]

\* Variant: CREATE TABLE after DROP TABLE IF EXISTS.
CreateTableAnew(d, tableName) ==
  [d EXCEPT !.tables = @ \cup {tableName}, ![tableName] = <<>>]

\* CREATE TABLE IF NOT EXISTS
CreateTableIfNotExists(d, tableName) ==
  IF tableName \in d.tables THEN d
  ELSE [d EXCEPT !.tables = @ \cup {tableName}, ![tableName] = <<>>]

\* CREATE INDEX IF NOT EXISTS
CreateIndexIfNotExists(d, indexName) == [d EXCEPT !.indexes = @ \cup {indexName}]

\* createTable: the indexes of the schema, inside the try block of the table.
RECURSIVE CreateIndexes(_, _, _, _)
CreateIndexes(d, indexes, k, f) ==
  IF indexes = <<>> THEN [success |-> TRUE, db |-> d]
  ELSE IF k \in f THEN [success |-> FALSE, db |-> d]
  ELSE CreateIndexes(CreateIndexIfNotExists(d, Head(indexes)), Tail(indexes), k + 1, f)

\* createTable: statement k creates the table, k + 1 .. its indexes.
CreateTable(d, tableName, indexes, k, f) ==
  IF k \in f THEN [success |-> FALSE, db |-> d]
  ELSE CreateIndexes(CreateTableIfNotExists(d, tableName), indexes, k + 1, f)

\* executeSql with a CREATE INDEX statement.
ExecuteCreateIndex(d, indexName, fail) ==
  IF fail THEN [success |-> FALSE, db |-> d]
  ELSE [success |-> TRUE, db |-> CreateIndexIfNotExists(d, indexName)]

InitializeMemoryDatabase(d, f) ==
  LET entitiesResult == CreateTable(d, "entities", <<>>, 1, f)
      relationsResult == CreateTable(entitiesResult.db, "relations", RelationIndexes, 2, f)
      typeIndexResult ==
        ExecuteCreateIndex(relationsResult.db, EntityIndexes[1], 6 \in f)
      updatedIndexResult ==
        ExecuteCreateIndex(typeIndexResult.db, EntityIndexes[2], 7 \in f)
  IN IF ~entitiesResult.success
     THEN [db |-> entitiesResult.db,
           calls |-> <<Call("createTable", "entities", entitiesResult, 0)>>,
           out |-> Thrown(FailedEntitiesTable)]
     ELSE IF ~relationsResult.success
     THEN [db |-> relationsResult.db,
           calls |-> <<Call("createTable", "entities", entitiesResult, 0),
                       Call("createTable", "relations", relationsResult, 0)>>,
           out |-> Thrown(FailedRelationsTable)]
     ELSE [db |-> updatedIndexResult.db,
           calls |-> <<Call("createTable", "entities", entitiesResult, 0),
                       Call("createTable", "relations", relationsResult, 0),
                       Call("executeSql", "entities", typeIndexResult, 0),
                       Call("executeSql", "entities", updatedIndexResult, 0)>>,
           out |-> Returned(<<>>)]

(* Initialization workload: the store starts without a schema, is          *)
(* initialized any number of times, and holds data once both tables exist. *)

InitSchema ==
  /\ db = NoSchema
  /\ clock = 0
  /\ last = NoCall
  /\ procs = <<>>

\* An initialization records the failing statements and the store before it.
DoInitialize(f) ==
  \E r \in {InitializeMemoryDatabase(db, f)} :
    /\ db' = r.db
    /\ last' = [op |-> "initializeMemoryDatabase", args |-> <<f>>,
                ok |-> r.out.ok, err |-> r.out.err, changes |-> 0, before |-> db]
    /\ UNCHANGED <<clock, procs>>

StoreRow ==
  /\ Tables \subseteq db.tables
  /\ Completed("createEntity", <<"a">>, CreateEntity(db, "a", "T1", <<>>, clock, {}))

LinkRows ==
  /\ Tables \subseteq db.tables
  /\ db.sqlite_sequence < MaxRel
  /\ Completed("createRelation", <<"a", "a">>,
               CreateRelation(db, "a", "a", "r1", clock, {}))

NextSchema ==
  \/ \E f \in SUBSET Statements : DoInitialize(f)
  \/ StoreRow
  \/ LinkRows

SpecSchema == InitSchema /\ [][NextSchema]_vars

----------------------------------------------------------------------------
(* Initialization: idempotence and failures.                               *)

\* Some initialization has completed: only a completed one creates the last
\* index on relations.
Initialized(d) ==
  /\ Tables \subseteq d.tables
  /\ Range(RelationIndexes) \subseteq d.indexes

SameRows(d, d2) ==
  /\ d2.entities = d.entities
  /\ d2.relations = d.relations
  /\ d2.sqlite_sequence = d.sqlite_sequence

FailedBefore == last.args[1]

\* C19 (as stated): initializeMemoryDatabase on an initialized store, its
\* statements succeeding, raises no error and leaves tables, indexes and
\* rows as they were.
C19_Idempotent ==
  (/\ last.op = "initializeMemoryDatabase"
   /\ Initialized(last.before)
   /\ FailedBefore = {}) => (last.ok /\ db = last.before)

\* C19 (amended): initializeMemoryDatabase on an initialized store, its
\* statements succeeding, raises no error, leaves the tables and all rows as
\* they were, drops no index and creates exactly the missing indexes on
\* entities; called again it changes nothing.  With failing statements it
\* still loses no row, no table and no index.
C19_IdempotentUpToIndexes ==
  Initialized(db) =>
    /\ \E r \in {InitializeMemoryDatabase(db, {})} :
         /\ r.out.ok
         /\ r.db.tables = db.tables
         /\ SameRows(db, r.db)
         /\ r.db.indexes = db.indexes \cup Range(EntityIndexes)
         /\ r.db.indexes = Indexes
         /\ InitializeMemoryDatabase(r.db, {}).db = r.db
         /\ InitializeMemoryDatabase(r.db, {}).out.ok
    /\ \A f \in SUBSET Statements :
         \E r \in {InitializeMemoryDatabase(db, f)} :
           /\ SameRows(db, r.db)
           /\ r.db.tables = db.tables
           /\ db.indexes \subseteq r.db.indexes

\* A second initialization of a store holding an entity and a relation
\* succeeded and created an index the first one had failed to create.
C19_Witness ==
  /\ last.op = "initializeMemoryDatabase"
  /\ last.ok
  /\ FailedBefore = {}
  /\ Initialized(last.before)
  /\ last.before.entities # <<>>
  /\ last.before.relations # <<>>
  /\ SameRows(last.before, db)
  /\ last.before.indexes # db.indexes
  /\ db.indexes = Indexes

\* C20: initializeMemoryDatabase raises an error exactly when the creation
\* of a table fails; when only index creations fail, on relations or on
\* entities, it completes without raising.
C20_OnlyTablesFatal ==
  last.op = "initializeMemoryDatabase" =>
    (last.ok <=> FailedBefore \cap TableStatements = {})

\* What holds instead: a failing index on relations is as fatal as a failing
\* table, and reported as a failure of the table although the table exists
\* afterwards; only the two indexes on entities are optional.
C20_RelationIndexesFatal ==
  last.op = "initializeMemoryDatabase" =>
    /\ last.ok <=> FailedBefore \cap (TableStatements \cup RelationIndexStatements) = {}
    /\ 1 \in FailedBefore => last.err = FailedEntitiesTable
    /\ (1 \notin FailedBefore /\ ~last.ok) =>
         (last.err = FailedRelationsTable /\ "entities" \in db.tables)
    /\ (FailedBefore \cap TableStatements = {} /\ ~last.ok) => Tables \subseteq db.tables
    /\ last.ok =>
         (/\ Initialized(db)
          /\ \A i \in DOMAIN EntityIndexes :
               (5 + i) \notin FailedBefore => EntityIndexes[i] \in db.indexes)

----------------------------------------------------------------------------
(* Store failures seen by the caller.                                      *)

UpdateFailed(calls) ==
  \E i \in DOMAIN calls : calls[i].call = "updateData" /\ ~calls[i].success

\* C21: an addObservation or deleteObservation whose store update reported
\* failure fails to the caller, and one that returned an Entity has
\* persisted the observations and the updatedAt it returned.
C21_UpdateFailurePropagates ==
  IsAddOrDelete(last.op) =>
    /\ UpdateFailed(last.calls) => ~last.ok
    /\ last.ok =>
         /\ StoredObservations(db, Target) = last.val.observations
         /\ EntityRow(db, Target).updated_at = last.val.updatedAt

\* What holds instead: the result of the update is never looked at.  With a
\* failing update both operations return the Entity they meant to write and
\* leave the store as it was; a failing read is reported as unknown entity.
C21_UpdateFailureSwallowed ==
  \A n \in Mutated, c \in ObsSeqs(1) :
    Exists(db, n) =>
      /\ \E r \in {AddObservation(db, n, c, clock, {2})} :
           /\ r.out.ok /\ r.db = db
           /\ r.out.val.observations = StoredObservations(db, n) \o c
      /\ \E r \in {DeleteObservation(db, n, c, clock, {2})} :
           /\ r.out.ok /\ r.db = db
           /\ r.out.val.updatedAt = clock
      /\ AddObservation(db, n, c, clock, {1}).out = Thrown(DoesNotExist)
      /\ DeleteObservation(db, n, c, clock, {1}).out = Thrown(DoesNotExist)

NotFound == <<>>     \* the null of openNode

\* C22: an openNode(name) whose store query reported failure raises an
\* error; it reports not-found only when the query succeeded and no entity
\* row has that name.
C22_OpenNodePropagates ==
  last.op = "openNode" =>
    /\ ~AllSucceeded(last.calls) => ~last.ok
    /\ (last.ok /\ last.val = NotFound) =>
         (AllSucceeded(last.calls) /\ ~Exists(db, last.args[1]))

\* What holds instead: openNode never raises; it reports not-found for every
\* failed query, also for a name that has an entity row, and otherwise
\* returns the entity of the row.
C22_FailureReadAsNotFound ==
  \A name \in TextNames \cup {Absent} :
    /\ OpenNode(db, name, {1}).out = Returned(NotFound)
    /\ OpenNode(db, name, {}).out =
         Returned(MapEntities(SelectRows(db.entities, [name |-> name])))
    /\ OpenNode(db, name, {1}).db = db

----------------------------------------------------------------------------
(* The server's tool-call handler: a switch over the tool name inside one  *)
(* try block.  `given` tells whether the request carries an arguments       *)
(* object; destructuring a missing one, or iterating a missing list,       *)
(* throws a TypeError inside the try block.                                *)

UnknownTool == "Unknown tool"
TypeError == "TypeError"
ErrorExecuting == "Error executing"
DeletedSuccessfully == "entities deleted successfully"
EmptyName == ""

\* The JSON text of the response, by its top-level members: success is
\* "true", "false" or "absent" (an array, or an object without the member).
ResultBody(result) ==
  [success |-> "absent", message |-> <<>>, error |-> "", value |-> result]
SuccessBody(message) ==
  [success |-> "true", message |-> message, error |-> "", value |-> <<>>]
ErrorBody(name, error) ==
  [success |-> "false", message |-> <<ErrorExecuting, name>>, error |-> error,
   value |-> <<>>]

Threw(d, error) == [db |-> d, calls |-> <<>>, out |-> Thrown(error)]

\* The switch: the engine call of the tool and the result it assigns.
Dispatch(d, name, given, args, now, fs) ==
  IF name = "create_entity"
  THEN IF ~given THEN Threw(d, TypeError)
       ELSE LET r == CreateEntities(d, args, now, fs)
            IN [db |-> r.db, calls |-> r.calls, out |-> Returned(ResultBody(r.out.val))]
  ELSE IF name = "delete_entity"
  THEN IF ~given THEN Threw(d, TypeError)
       ELSE LET r == DeleteEntities(d, args, fs)
            IN [db |-> r.db, calls |-> r.calls,
                out |-> Returned(SuccessBody(<<Len(args), DeletedSuccessfully>>))]
  ELSE IF name = "read_graph"
  THEN LET r == ReadGraph(d, fs)
       IN [db |-> r.db, calls |-> r.calls, out |-> Returned(ResultBody(r.out.val))]
  ELSE IF name = "open_node"
  THEN IF ~given THEN Threw(d, TypeError)
       ELSE LET r == OpenNodes(d, args, fs)
            IN [db |-> r.db, calls |-> r.calls, out |-> Returned(ResultBody(r.out.val))]
  ELSE Threw(d, UnknownTool)

\* The handler: the response of the try block or of its catch block.
CallTool(d, name, given, args, now, fs) ==
  LET r == Dispatch(d, name, given, args, now, fs)
  IN [db |-> r.db, calls |-> r.calls, threw |-> ~r.out.ok,
      body |-> IF r.out.ok THEN r.out.val ELSE ErrorBody(name, r.out.err)]

(* Tool workload: requests for four of the memory tools and for a tool the *)
(* server does not have, with and without arguments, over the names "a"    *)
(* and the empty name.                                                     *)

ToolNames == {"a", EmptyName}
ToolItems == {[name |-> n, entityType |-> "T1", observations |-> <<>>] : n \in ToolNames}

\* A request records its tool, whether arguments came, the names asked
\* for, the store before, the store calls and the response.
Responded(name, given, keys, r) ==
  /\ db' = r.db
  /\ last' = [op |-> name, args |-> keys, ok |-> TRUE, err |-> "",
              changes |-> RowsWritten(r.calls), given |-> given, before |-> db,
              calls |-> r.calls, threw |-> r.threw, body |-> r.body]
  /\ UNCHANGED <<clock, procs>>

CallCreateEntity(given, entities, fs) ==
  Responded("create_entity", given, [i \in DOMAIN entities |-> entities[i].name],
            CallTool(db, "create_entity", given, entities, clock, fs))

CallDeleteEntity(given, entityNames, fs) ==
  Responded("delete_entity", given, entityNames,
            CallTool(db, "delete_entity", given, entityNames, clock, fs))

CallReadGraph(given, f) ==
  Responded("read_graph", given, <<>>, CallTool(db, "read_graph", given, <<>>, clock, f))

CallOpenNode(given, names, fs) ==
  Responded("open_node", given, names,
            CallTool(db, "open_node", given, names, clock, fs))

CallUnknown(given) ==
  Responded("no_such_tool", given, <<>>,
            CallTool(db, "no_such_tool", given, <<>>, clock, <<>>))

NextTools ==
  \/ \E entities \in SeqsUpTo(ToolItems, 2) :
       \E fs \in [DOMAIN entities -> Faults(2)] : CallCreateEntity(TRUE, entities, fs)
  \/ CallCreateEntity(FALSE, <<>>, <<>>)
  \/ \E entityNames \in SeqsUpTo(ToolNames, 1) :
       \E fs \in [DOMAIN entityNames -> {{}, {3}, {1, 2, 3}}] :
         CallDeleteEntity(TRUE, entityNames, fs)
  \/ CallDeleteEntity(FALSE, <<>>, <<>>)
  \/ \E given \in BOOLEAN, f \in Faults(2) : CallReadGraph(given, f)
  \/ \E names \in SeqsUpTo(ToolNames, 1) :
       \E fs \in [DOMAIN names -> Faults(1)] : CallOpenNode(TRUE, names, fs)
  \/ CallOpenNode(FALSE, <<>>, <<>>)
  \/ \E given \in BOOLEAN : CallUnknown(given)

SpecTools == Init /\ [][NextTools]_vars

----------------------------------------------------------------------------
(* Validation and the responses of the handler.                            *)

\* C23: a create_entity request without arguments, or for an entity with
\* the empty name alone, issues no store call, creates no entity row and
\* leaves the store unchanged.
C23_EmptyNameRejected ==
  (last.op = "create_entity" /\ (~last.given \/ last.args = <<EmptyName>>)) =>
    /\ last.calls = <<>>
    /\ db = last.before
    /\ ~Exists(db, EmptyName)

\* What holds instead: a missing arguments object is rejected before any
\* store call, but the empty name is a name like any other: createEntity
\* reads the store for it and, when it is free and the insert succeeds,
\* inserts a row named "" and returns its Entity.
C23_EmptyNameStored ==
  /\ CallTool(db, "create_entity", FALSE, <<>>, clock, <<>>).calls = <<>>
  /\ CallTool(db, "create_entity", FALSE, <<>>, clock, <<>>).db = db
  /\ \A f \in Faults(2) :
       \E r \in {CreateEntity(db, EmptyName, "T1", <<>>, clock, f)} :
         /\ Len(r.calls) >= 1
         /\ r.calls[1].call = "queryData"
         /\ (f = {} /\ ~Exists(db, EmptyName)) =>
              (r.out.ok /\ r.out.val.name = EmptyName /\ Exists(r.db, EmptyName))

Tools == {"create_entity", "delete_entity", "read_graph", "open_node", "no_such_tool"}

\* A store call the request depends on reported failure: a write of a
\* creation or deletion, a read of a lookup.
StoreFailure(op, calls) ==
  \E i \in DOMAIN calls :
    /\ ~calls[i].success
    /\ \/ calls[i].call \in {"insertData", "deleteData"}
       \/ op \in {"read_graph", "open_node"}

\* The requested operation failed: no such tool, an exception reached the
\* handler, or a store failure.
OperationFailed ==
  \/ last.op = "no_such_tool"
  \/ last.threw
  \/ StoreFailure(last.op, last.calls)

\* C24: every request is answered, and the answer to a request whose
\* operation failed is a body with success = false, a message and an error
\* description.
C24_FailuresReported ==
  last.op \in Tools =>
    /\ last.ok
    /\ OperationFailed =>
         /\ last.body.success = "false"
         /\ last.body.message # <<>>
         /\ last.body.error # ""

\* What holds instead: every request is answered, and the body says
\* success = false exactly when an exception reached the handler; a store
\* failure inside an engine call that returns is answered like a success.
C24_OnlyThrownReported ==
  last.op \in Tools =>
    /\ last.ok
    /\ last.body.success = "false" <=> last.threw
    /\ last.threw =>
         /\ last.body = ErrorBody(last.op, last.body.error)
         /\ last.body.error \in {UnknownTool, TypeError}
         /\ db = last.before
    /\ last.threw <=> (last.op = "no_such_tool" \/ (~last.given /\ last.op # "read_graph"))

----------------------------------------------------------------------------
(* The store adapter called directly (tool insert_data): inserts of        *)
(* several records into entities.                                          *)

MaxRecords == 2      \* records in one insert call

RecordNames == Names \cup {Unknown}
Records ==
  {[name |-> n, entity_type |-> "T1", observations |-> JSONStringify(<<>>),
    created_at |-> 0, updated_at |-> 0] : n \in RecordNames}

\* An insert records its records, the store before and the reported result.
DoInsertData(records, failAt) ==
  \E r \in {InsertData(db, "entities", records, failAt)} :
    /\ db' = r.db
    /\ last' = [op |-> "insertData", args |-> records, ok |-> r.success, err |-> "",
                changes |-> r.insertedCount, before |-> db,
                insertedCount |-> r.insertedCount]
    /\ UNCHANGED <<clock, procs>>

DoDeleteData(n, fail) ==
  \E r \in {DeleteData(db, "entities", [name |-> n], fail)} :
    /\ db' = r.db
    /\ last' = [op |-> "deleteData", args |-> <<n>>, ok |-> r.success, err |-> "",
                changes |-> r.changes, before |-> db]
    /\ UNCHANGED <<clock, procs>>

NextAdapter ==
  \/ \E records \in SeqsUpTo(Records, MaxRecords), failAt \in 0..MaxRecords :
       DoInsertData(records, failAt)
  \/ \E n \in RecordNames, fail \in BOOLEAN : DoDeleteData(n, fail)

SpecAdapter == Init /\ [][NextAdapter]_vars

\* C25: an insert of several records that reports failure has persisted
\* none of them, and one that reports success has persisted all of them
\* and reports their number.
C25_InsertAllOrNothing ==
  last.op = "insertData" =>
    /\ ~last.ok => db = last.before
    /\ last.ok =>
         /\ db.entities = last.before.entities \o last.args
         /\ last.insertedCount = Len(last.args)

\* What holds instead: the records are inserted one statement at a time
\* without a transaction; a call that reports failure has persisted the
\* records before the failing one.
C25_InsertPrefix ==
  last.op = "insertData" =>
    /\ db.entities = last.before.entities \o SubSeq(last.args, 1, last.insertedCount)
    /\ last.ok <=> (last.args # <<>> /\ last.insertedCount = Len(last.args))

----------------------------------------------------------------------------
(* createRelation and deleteEntity by two concurrent callers: each store   *)
(* call of the one may fall between two store calls of the other.  Caller  *)
(* 1 creates a relation, caller 2 deletes an entity; the deletes of        *)
(* caller 2 may report failure.                                            *)

Creator == 1
Deleter == 2

StoreWithAB ==
  [entities |-> <<[name |-> "a", entity_type |-> "T1",
                   observations |-> JSONStringify(<<>>),
                   created_at |-> 0, updated_at |-> 0],
                  [name |-> "b", entity_type |-> "T2",
                   observations |-> JSONStringify(<<>>),
                   created_at |-> 0, updated_at |-> 0]>>,
   relations |-> <<[id |-> 1, from_entity |-> "a", to_entity |-> "b",
                    relation_type |-> "r1", created_at |-> 0]>>,
   sqlite_sequence |-> 1]

IdleCreator ==
  [pc |-> "idle", from |-> "", to |-> "", fromFound |-> FALSE, toFound |-> FALSE,
   now |-> 0, ok |-> TRUE, err |-> "", raced |-> FALSE]
IdleDeleter ==
  [pc |-> "idle", name |-> "", atStart |-> <<>>, failed |-> {}, ok |-> TRUE,
   present |-> TRUE]

InitRace ==
  /\ db = StoreWithAB
  /\ clock = 0
  /\ last = NoCall
  /\ procs = <<IdleCreator, IdleDeleter>>

\* Variant: the insert is refused when an endpoint has no entity row at the
\* time of the insert.
InsertWithEndpoints(d, from, to, relationType, now) ==
  IF Exists(d, from) /\ Exists(d, to)
  THEN InsertData(d, "relations",
                  <<[from_entity |-> from, to_entity |-> to,
                     relation_type |-> relationType, created_at |-> now]>>, 0)
  ELSE [success |-> FALSE, db |-> d, insertedCount |-> 0]

\* The insert of createRelation; the endpoints were looked up earlier.
InsertRelation(d, from, to, relationType, now) ==
  InsertData(d, "relations",
             <<[from_entity |-> from, to_entity |-> to,
                relation_type |-> relationType, created_at |-> now]>>, 0)

BeginCreateRelation(from, to) ==
  /\ procs[Creator].pc = "idle"
  /\ procs' = [procs EXCEPT ![Creator] =
                 [IdleCreator EXCEPT !.pc = "queryFrom", !.from = from, !.to = to]]
  /\ UNCHANGED <<db, clock, last>>

QueryFrom ==
  /\ procs[Creator].pc = "queryFrom"
  /\ LET fromEntity == QueryData(db, "entities", [name |-> procs[Creator].from], FALSE)
     IN procs' = [procs EXCEPT ![Creator].pc = "queryTo",
                               ![Creator].fromFound = Len(fromEntity.rows) > 0]
  /\ UNCHANGED <<db, clock, last>>

\* The second lookup answers and both results are tested; `now` is read.
QueryTo ==
  /\ procs[Creator].pc = "queryTo"
  /\ LET toEntity == QueryData(db, "entities", [name |-> procs[Creator].to], FALSE)
     IN IF ~procs[Creator].fromFound \/ Len(toEntity.rows) = 0
        THEN procs' = [procs EXCEPT ![Creator].pc = "done", ![Creator].ok = FALSE,
                                    ![Creator].err = DoesNotExist]
        ELSE procs' = [procs EXCEPT ![Creator].pc = "insert",
                                    ![Creator].toFound = TRUE,
                                    ![Creator].now = clock]
  /\ UNCHANGED <<db, clock, last>>

\* The number of deletes of deleteEntity that have answered.
StepsDone(pc) ==
  IF pc = "deleteTo" THEN 1 ELSE IF pc = "deleteRow" THEN 2 ELSE IF pc = "done" THEN 3 ELSE 0

\* The row from -> to would no longer be met by the relation deletes of the
\* deleteEntity in progress or completed.
Escapes(from, to, e) ==
  /\ e.name \in {from, to}
  /\ e.pc # "idle"
  /\ StepsDone(e.pc) >= (IF to = e.name THEN 2 ELSE 1)

\* The insert answers.  raced: the new row touches the entity of a
\* deleteEntity whose relation deletes no longer meet it.
Inserted ==
  /\ procs[Creator].pc = "insert"
  /\ LET c == procs[Creator]
         insertResult == InsertRelation(db, c.from, c.to, "r1", c.now)
     IN /\ db' = insertResult.db
        /\ procs' = [procs EXCEPT ![Creator].pc = "done",
                                  ![Creator].ok = insertResult.success,
                                  ![Creator].err = IF insertResult.success THEN ""
                                                   ELSE FailedToCreateRelation,
                                  ![Creator].raced =
                                    Escapes(c.from, c.to, procs[Deleter])]
  /\ UNCHANGED <<clock, last>>

BeginDeleteEntity(entityName) ==
  /\ procs[Deleter].pc = "idle"
  /\ procs' = [procs EXCEPT ![Deleter] =
                 [IdleDeleter EXCEPT !.pc = "deleteFrom", !.name = entityName,
                                     !.atStart = db.relations]]
  /\ UNCHANGED <<db, clock, last>>

\* One of the three deletes answers; its result is not looked at.  present
\* tells whether the entity row was there at every step so far.
DeleteStep(pc, next, k, table, cond, fail) ==
  /\ procs[Deleter].pc = pc
  /\ LET r == DeleteData(db, table, cond, fail)
     IN /\ db' = r.db
        /\ procs' = [procs EXCEPT ![Deleter].pc = next,
                                  ![Deleter].failed = IF r.success THEN @ ELSE @ \cup {k},
                                  ![Deleter].present =
                                    @ /\ Exists(db, procs[Deleter].name)]
  /\ UNCHANGED <<clock, last>>

DeleteFrom(fail) ==
  DeleteStep("deleteFrom", "deleteTo", 1, "relations",
             [from_entity |-> procs[Deleter].name], fail)
DeleteTo(fail) ==
  DeleteStep("deleteTo", "deleteRow", 2, "relations",
             [to_entity |-> procs[Deleter].name], fail)
DeleteRow(fail) ==
  DeleteStep("deleteRow", "done", 3, "entities", [name |-> procs[Deleter].name], fail)

NextRace ==
  \/ \E from \in Names, to \in Names : BeginCreateRelation(from, to)
  \/ QueryFrom
  \/ QueryTo
  \/ Inserted
  \/ \E entityName \in Names : BeginDeleteEntity(entityName)
  \/ \E fail \in BOOLEAN : DeleteFrom(fail)
  \/ \E fail \in BOOLEAN : DeleteTo(fail)
  \/ \E fail \in BOOLEAN : DeleteRow(fail)

SpecRace == InitRace /\ [][NextRace]_vars

\* The relation rows of d with an endpoint that has no entity row.
Dangling(d) ==
  {i \in DOMAIN d.relations :
     ~Exists(d, d.relations[i].from_entity) \/ ~Exists(d, d.relations[i].to_entity)}

\* C26: when the insert of createRelation(a, b, t) falls after the relation
\* deletes of a deleteEntity(a) or deleteEntity(b), both calls complete
\* without error and, the entity row once deleted, a relation row is left
\* whose from or to has no entity row; the row stays.  Without such an
\* interleaving, and with deletes that succeed, no relation row dangles.
C26_RaceLeavesDanglingEdge ==
  LET c == procs[Creator]
      e == procs[Deleter]
  IN /\ (c.pc = "done" /\ c.raced /\ e.pc = "done" /\ 3 \notin e.failed) =>
          /\ c.ok /\ e.ok
          /\ \E i \in Dangling(db) :
               /\ db.relations[i].from_entity = c.from
               /\ db.relations[i].to_entity = c.to
               /\ db.relations[i].id = db.sqlite_sequence
     /\ (e.failed = {} /\ ~c.raced) => Dangling(db) = {}

\* Both calls have completed without error and without a failed store
\* call, and the new relation points at an entity that is gone.
C26_Witness ==
  /\ procs[Creator].pc = "done" /\ procs[Deleter].pc = "done"
  /\ procs[Creator].ok /\ procs[Deleter].ok
  /\ procs[Deleter].failed = {}
  /\ procs[Creator].fromFound /\ procs[Creator].toFound
  /\ procs[Creator].raced
  /\ procs[Deleter].name = procs[Creator].to
  /\ ~Exists(db, procs[Creator].to)
  /\ Dangling(db) # {}

----------------------------------------------------------------------------
(* Observation mutations on one entity by two concurrent callers: the read *)
(* of either may fall before the write of the other.                       *)

Subject == "a"
InitialObservations == << <<"y">> >>

StoreWithSubject ==
  [entities |-> <<[name |-> Subject, entity_type |-> "T1",
                   observations |-> JSONStringify(InitialObservations),
                   created_at |-> 0, updated_at |-> 0]>>,
   relations |-> <<>>, sqlite_sequence |-> 0]

IdleMutator ==
  [pc |-> "idle", op |-> "", contents |-> <<>>, current |-> <<>>, now |-> 0,
   ok |-> TRUE, err |-> "", overwrote |-> FALSE, returned |-> <<>>]

InitLost ==
  /\ db = StoreWithSubject
  /\ clock = 0
  /\ last = NoCall
  /\ procs = [p \in Callers |-> IdleMutator]

\* updatedObservations of addObservation and of deleteObservation.
Modify(op, currentObservations, contents) ==
  IF op = "addObservation" THEN currentObservations \o contents
  ELSE FilterNotIncluded(currentObservations, contents)

\* Variant: the update is computed from the row as stored when it is written.
WriteBackFresh(d, entityName, op, currentObservations, contents, now) ==
  UpdateData(d, "entities", [name |-> entityName],
             [observations |->
                JSONStringify(Modify(op, StoredObservations(d, entityName), contents)),
              updated_at |-> now], FALSE)

\* The update of an observation mutation: it writes what was computed from
\* the observations read earlier.
WriteBack(d, entityName, op, currentObservations, contents, now) ==
  UpdateData(d, "entities", [name |-> entityName],
             [observations |-> JSONStringify(Modify(op, currentObservations, contents)),
              updated_at |-> now], FALSE)

BeginMutation(p, op, contents) ==
  /\ procs[p].pc = "idle"
  /\ procs' = [procs EXCEPT ![p] =
                 [IdleMutator EXCEPT !.pc = "read", !.op = op, !.contents = contents]]
  /\ UNCHANGED <<db, clock, last>>

\* The read answers; the new observations are computed and `now` is read.
ReadEntity(p) ==
  /\ procs[p].pc = "read"
  /\ LET result == QueryData(db, "entities", [name |-> Subject], FALSE)
     IN IF Len(result.rows) = 0
        THEN procs' = [procs EXCEPT ![p].pc = "done", ![p].ok = FALSE,
                                    ![p].err = DoesNotExist]
        ELSE procs' = [procs EXCEPT ![p].pc = "write",
                                    ![p].current = JSONParse(result.rows[1].observations),
                                    ![p].now = clock]
  /\ UNCHANGED <<db, clock, last>>

\* The update answers and the Entity is returned.  overwrote: the row had
\* been written since this caller read it.
WriteEntity(p) ==
  /\ procs[p].pc = "write"
  /\ LET c == procs[p]
         upd == WriteBack(db, Subject, c.op, c.current, c.contents, c.now)
     IN /\ db' = upd.db
        /\ procs' = [procs EXCEPT ![p].pc = "done",
                                  ![p].overwrote = StoredObservations(db, Subject) # c.current,
                                  ![p].returned =
                                    [name |-> Subject,
                                     observations |-> Modify(c.op, c.current, c.contents),
                                     updatedAt |-> c.now]]
  /\ UNCHANGED <<clock, last>>

NextLost ==
  \/ \E p \in Callers, op \in {"addObservation", "deleteObservation"},
        contents \in {<< <<"x">> >>, << <<"y">> >>, << <<"x">>, <<"y">> >>} :
       BeginMutation(p, op, contents)
  \/ \E p \in Callers : ReadEntity(p)
  \/ \E p \in Callers : WriteEntity(p)

SpecLost == InitLost /\ [][NextLost]_vars

\* C27: when a caller writes the row after the other caller has written it
\* since the first one's read, both calls have returned an Entity and the
\* persisted observations are those computed by the later writer from what
\* it had read: the earlier write is lost.  If both appended, the persisted
\* sequence is shorter than after the two appends in either order, and the
\* earlier writer's Entity is not what is persisted.
C27_LostUpdate ==
  \A p \in Callers, q \in Callers :
    (p # q /\ procs[p].pc = "done" /\ procs[q].pc = "done" /\ procs[p].overwrote) =>
      /\ procs[p].ok /\ procs[q].ok
      /\ StoredObservations(db, Subject) = procs[p].returned.observations
      /\ StoredObservations(db, Subject) =
           Modify(procs[p].op, procs[p].current, procs[p].contents)
      /\ (procs[p].op = "addObservation" /\ procs[q].op = "addObservation") =>
           /\ Len(StoredObservations(db, Subject)) <
                Len(InitialObservations) + Len(procs[p].contents) + Len(procs[q].contents)
           /\ procs[q].returned.observations # StoredObservations(db, Subject)
                \/ procs[q].contents = procs[p].contents

\* Caller 1 appended x and caller 2 appended y to the observations y; both
\* returned, and the persisted observations are y, y: x is lost.
C27_Witness ==
  /\ procs[1].pc = "done" /\ procs[2].pc = "done"
  /\ procs[1].ok /\ procs[2].ok
  /\ procs[1].op = "addObservation" /\ procs[1].contents = << <<"x">> >>
  /\ procs[2].op = "addObservation" /\ procs[2].contents = << <<"y">> >>
  /\ procs[2].overwrote
  /\ StoredObservations(db, Subject) = << <<"y">>, <<"y">> >>
  /\ procs[1].returned.observations = << <<"y">>, <<"x">> >>
  /\ procs[1].returned.observations # StoredObservations(db, Subject)

----------------------------------------------------------------------------
(* The cascade of deleteEntity.                                            *)

\* The relation rows present when the call began that touch its entity and
\* are still stored.
LeftOver(e) ==
  {i \in DOMAIN e.atStart :
     /\ Touches(e.atStart[i], e.name)
     /\ e.atStart[i] \in Range(db.relations)}

\* C28: while deleteEntity(name) stands between two of its deletes the
\* entity row exists, and once the entity row is removed no relation row
\* that touched it when the call began is left.
C28_CascadeOrder ==
  LET e == procs[Deleter]
  IN /\ e.pc \in {"deleteTo", "deleteRow"} => (e.present /\ Exists(db, e.name))
     /\ (e.pc = "done" /\ ~Exists(db, e.name)) => LeftOver(e) = {}

\* What holds instead: the deletes are issued in the order from, to, entity,
\* and the entity row exists until the third; but the results of the first
\* two are not looked at, so rows remain exactly when one of them failed.
C28_OrderWhenDeleted ==
  LET e == procs[Deleter]
  IN /\ e.pc \in {"deleteTo", "deleteRow"} => (e.present /\ Exists(db, e.name))
     /\ e.failed \subseteq 1..StepsDone(e.pc)
     /\ (e.pc = "done" /\ e.failed \cap {1, 2} = {}) => LeftOver(e) = {}
     /\ (e.pc = "done" /\ LeftOver(e) # {}) => e.failed \cap {1, 2} # {}
     /\ e.pc = "done" => (Exists(db, e.name) <=> 3 \in e.failed)

\* C29: with one caller, a deleteEntity(e) that returned normally has left
\* no entity named e and no relation with from = e or to = e.
C29_DeleteEntityComplete ==
  (last.op = "deleteEntity" /\ last.ok) =>
    /\ ~Exists(db, last.args[1])
    /\ \A i \in DOMAIN db.relations : ~Touches(db.relations[i], last.args[1])

\* What holds instead: deleteEntity returns normally whatever its deletes
\* report.  When only the third fails the relations are gone and the entity
\* row remains; when only the first two fail the entity row is gone and the
\* relations touching it remain.
C29_DeleteFailureSwallowed ==
  \A e \in Names :
    /\ \A f \in Faults(3) : DeleteEntity(db, e, f).out.ok
    /\ \E r \in {DeleteEntity(db, e, {3})} :
         /\ r.db.entities = db.entities
         /\ \A i \in DOMAIN r.db.relations : ~Touches(r.db.relations[i], e)
    /\ \E r \in {DeleteEntity(db, e, {1, 2})} :
         /\ ~Exists(r.db, e)
         /\ r.db.relations = db.relations

----------------------------------------------------------------------------
(* readGraph by one caller while another caller's calls complete between   *)
(* its two store reads.  The other caller's calls run whole and without    *)
(* store failures, so the store never holds a dangling edge.               *)

MaxInstants == 3     \* store contents seen during one readGraph

Reader == 1

Content(d) == [entities |-> MapEntities(d.entities), relations |-> MapRelations(d.relations)]

IdleReader ==
  [pc |-> "idle", entities |-> <<>>, relations |-> <<>>, seen |-> {}, ok |-> TRUE]

InitSnapshot ==
  /\ db = StoreWithAB
  /\ clock = 0
  /\ last = NoCall
  /\ procs = <<IdleReader>>

Reading == procs[Reader].pc \in {"readEntities", "readRelations"}

BeginReadGraph ==
  /\ procs[Reader].pc = "idle"
  /\ procs' = [procs EXCEPT ![Reader].pc = "readEntities",
                            ![Reader].seen = {Content(db)}]
  /\ UNCHANGED <<db, clock, last>>

ReadEntities ==
  /\ procs[Reader].pc = "readEntities"
  /\ LET entitiesResult == QueryData(db, "entities", NoConditions, FALSE)
     IN procs' = [procs EXCEPT ![Reader].pc = "readRelations",
                               ![Reader].entities =
                                 IF entitiesResult.success
                                 THEN MapEntities(entitiesResult.rows) ELSE <<>>]
  /\ UNCHANGED <<db, clock, last>>

ReadRelations ==
  /\ procs[Reader].pc = "readRelations"
  /\ LET relationsResult == QueryData(db, "relations", NoConditions, FALSE)
     IN procs' = [procs EXCEPT ![Reader].pc = "done",
                               ![Reader].relations =
                                 IF relationsResult.success
                                 THEN MapRelations(relationsResult.rows) ELSE <<>>]
  /\ UNCHANGED <<db, clock, last>>

\* A call of the other caller has run to its end.
Other(r) ==
  /\ Cardinality(procs[Reader].seen) < MaxInstants
  /\ procs[Reader].pc # "done"
  /\ db' = r.db
  /\ procs' = [procs EXCEPT ![Reader].seen =
                 IF Reading THEN @ \cup {Content(r.db)} ELSE @]
  /\ UNCHANGED <<clock, last>>

OtherCreateEntity(n) == Other(CreateEntity(db, n, "T1", <<>>, clock, {}))
OtherCreateRelation(a, b) ==
  /\ db.sqlite_sequence < MaxRel
  /\ Other(CreateRelation(db, a, b, "r1", clock, {}))
OtherDeleteEntity(n) == Other(DeleteEntity(db, n, {}))

NextSnapshot ==
  \/ BeginReadGraph
  \/ ReadEntities
  \/ ReadRelations
  \/ \E n \in Names \cup {Unknown} : OtherCreateEntity(n)
  \/ \E a \in Names \cup {Unknown}, b \in Names \cup {Unknown} : OtherCreateRelation(a, b)
  \/ \E n \in Names \cup {Unknown} : OtherDeleteEntity(n)

SpecSnapshot == InitSnapshot /\ [][NextSnapshot]_vars

\* C30: the graph returned by readGraph has both ends of each of its
\* relations among its entities and equals the store content at some
\* instant of the call, whatever calls of another caller fell between its
\* two reads.
C30_ConsistentSnapshot ==
  LET g == procs[Reader]
  IN g.pc = "done" =>
       /\ \A i \in DOMAIN g.relations :
            /\ \E j \in DOMAIN g.entities : g.entities[j].name = g.relations[i].from
            /\ \E j \in DOMAIN g.entities : g.entities[j].name = g.relations[i].to
       /\ [entities |-> g.entities, relations |-> g.relations] \in g.seen

\* What holds instead: the store never holds a dangling edge here, and both
\* reads fail whatever is stored, so the returned graph is empty.
C30_SnapshotEmpty ==
  /\ NoDangling(db)
  /\ procs[Reader].entities = <<>>
  /\ procs[Reader].relations = <<>>

====
